---- MODULE Spec2Model ----
(***************************************************************************)
(* A model of the PRD agent (src/PRDAgent/prd_agent.py): the seven-stage   *)
(* CIRCLES orchestration, the completion invoker with its retry paths, the *)
(* document assembler with its fallbacks, the insight extractor, the table *)
(* synthesizers and the coverage scorer.                                   *)
(*                                                                         *)
(* Texts are TLA+ strings and the Python string methods the code uses are  *)
(* operators over them (split, strip, lower, slicing, "in", startswith),   *)
(* written with set comprehensions or halving recursion so that long texts *)
(* do not need deep recursion.  The input alphabet is ASCII.               *)
(***************************************************************************)
EXTENDS Integers, Sequences, FiniteSets, TLC

VARIABLES
    pc,          \* position of the generate_prd call
    args,        \* arguments of the generate_prd call in progress
    env,         \* the prompt files on disk
    sessions,    \* GroqPRDAgent.sessions: session id -> PRDSession
    step,        \* position of the stage loop: the 1-based index of the stage
    responses,   \* the dict `responses` of _execute_circles_framework
    call,        \* the _call_groq_api invocation in progress
    ret,         \* how the last _call_groq_api invocation ended
    result,      \* what generate_prd returned or raised
    faults,      \* deviations of the environment met so far
    hist,        \* history: recordings made, requests sent, stages that raised
    cov,         \* coverage scorer: its input document and its report
    tab,         \* extractor and table synthesizers: inputs and outputs
    suspended,   \* the generate_prd calls suspended in asyncio.sleep
    ended,       \* the generate_prd calls that returned or raised
    txt          \* prompt builders and truncators: inputs and outputs

vars == <<pc, args, env, sessions, step, responses, call, ret, result, faults,
          hist, cov, tab, suspended, ended, txt>>

----------------------------------------------------------------------------
(* Python str operations                                                   *)

Min(a, b) == IF a <= b THEN a ELSE b
Max(a, b) == IF a >= b THEN a ELSE b

\* s[i] for a 1-based index
Ch(s, i) == SubSeq(s, i, i)

\* s[:n]
Take(s, n) == SubSeq(s, 1, Min(n, Len(s)))

\* s[n:]
Drop(s, n) == SubSeq(s, Min(n, Len(s)) + 1, Len(s))

\* the characters str.strip() and str.split() treat as whitespace
IsSpace(c) == c \in {" ", "\n", "\t", "\r", "\f"}

\* k in s
Contains(s, k) ==
    \E i \in 1..(Len(s) - Len(k) + 1) : SubSeq(s, i, i + Len(k) - 1) = k

\* s.startswith(p), s.endswith(p)
StartsWith(s, p) == Len(p) <= Len(s) /\ SubSeq(s, 1, Len(p)) = p
EndsWith(s, p) == Len(p) <= Len(s) /\ SubSeq(s, Len(s) - Len(p) + 1, Len(s)) = p

\* s.startswith(tuple)
StartsWithAny(s, ps) == \E p \in ps : StartsWith(s, p)

\* s.lstrip(chars) for a set of characters
LStripChars(s, cs) ==
    LET keep == {i \in 1..Len(s) : Ch(s, i) \notin cs}
    IN  IF keep = {} THEN ""
        ELSE SubSeq(s, CHOOSE i \in keep : \A j \in keep : i <= j, Len(s))

\* s.strip(): the text between its leading and its trailing whitespace
LeadingSpaces(s) ==
    CHOOSE n \in 0..Len(s) :
        /\ \A j \in 1..n : IsSpace(Ch(s, j))
        /\ n = Len(s) \/ ~IsSpace(Ch(s, n + 1))

TrailingSpaces(s) ==
    CHOOSE n \in 0..Len(s) :
        /\ \A j \in 1..n : IsSpace(Ch(s, Len(s) + 1 - j))
        /\ n = Len(s) \/ ~IsSpace(Ch(s, Len(s) - n))

Between(s, lead, trail) ==
    IF lead = Len(s) THEN "" ELSE SubSeq(s, lead + 1, Len(s) - trail)

Strip(s) == Between(s, LeadingSpaces(s), TrailingSpaces(s))

UpperLetters == <<"A","B","C","D","E","F","G","H","I","J","K","L","M",
                  "N","O","P","Q","R","S","T","U","V","W","X","Y","Z">>
LowerLetters == <<"a","b","c","d","e","f","g","h","i","j","k","l","m",
                  "n","o","p","q","r","s","t","u","v","w","x","y","z">>

UpperSet == {UpperLetters[k] : k \in 1..26}
LowerSet == {LowerLetters[k] : k \in 1..26}

LowerCh(c) ==
    IF c \in UpperSet
    THEN LowerLetters[CHOOSE k \in 1..26 : UpperLetters[k] = c] ELSE c

UpperCh(c) ==
    IF c \in LowerSet
    THEN UpperLetters[CHOOSE k \in 1..26 : LowerLetters[k] = c] ELSE c

IsLetter(c) == c \in UpperSet \/ c \in LowerSet

\* s.lower(): a stretch without upper-case letters is returned as it is
RECURSIVE Lower(_)
Lower(s) ==
    IF \A i \in 1..Len(s) : Ch(s, i) \notin UpperSet THEN s
    ELSE IF Len(s) = 1 THEN LowerCh(s)
    ELSE Lower(SubSeq(s, 1, Len(s) \div 2))
         \o Lower(SubSeq(s, (Len(s) \div 2) + 1, Len(s)))

\* s.title(): a letter that follows a non-letter is upper-cased, the others
\* lower-cased
RECURSIVE TitleFrom(_, _, _)
TitleFrom(s, a, b) ==
    IF a > b THEN ""
    ELSE IF a = b
         THEN IF a = 1 \/ ~IsLetter(Ch(s, a - 1))
              THEN UpperCh(Ch(s, a)) ELSE LowerCh(Ch(s, a))
    ELSE TitleFrom(s, a, (a + b) \div 2) \o TitleFrom(s, ((a + b) \div 2) + 1, b)

Title(s) == TitleFrom(s, 1, Len(s))

\* the smallest element of a finite set of integers
Least(S) == CHOOSE i \in S : \A j \in S : i <= j

\* the elements of S that lie in lo..hi, in increasing order
RECURSIVE Ascending(_, _, _)
Ascending(S, lo, hi) ==
    IF lo > hi THEN <<>>
    ELSE IF lo = hi THEN (IF lo \in S THEN <<lo>> ELSE <<>>)
    ELSE Ascending(S, lo, (lo + hi) \div 2)
         \o Ascending(S, ((lo + hi) \div 2) + 1, hi)

\* the elements of a list at the indices K, in order
PickAt(q, at) == [k \in 1..Len(at) |-> q[at[k]]]
Pick(q, K) == PickAt(q, Ascending(K, 1, Len(q)))

\* the pieces of s between the separators that start at the positions P and
\* are w characters wide
PiecesAt(s, at, w) ==
    [k \in 1..(Len(at) + 1) |->
        SubSeq(s, IF k = 1 THEN 1 ELSE at[k - 1] + w,
                  IF k = Len(at) + 1 THEN Len(s) ELSE at[k] - 1)]

Pieces(s, P, w) == PiecesAt(s, Ascending(P, 1, Len(s)), w)

\* s.split(sep) for a one-character separator
Split(s, sep) == Pieces(s, {i \in 1..Len(s) : Ch(s, i) = sep}, 1)

\* s.split(): the maximal runs of non-whitespace characters
WordStarts(s) ==
    {i \in 1..Len(s) : ~IsSpace(Ch(s, i)) /\ (i = 1 \/ IsSpace(Ch(s, i - 1)))}

WordEnds(s) ==
    {i \in 1..Len(s) :
        ~IsSpace(Ch(s, i)) /\ (i = Len(s) \/ IsSpace(Ch(s, i + 1)))}

WordsAt(s, B, E) == [k \in 1..Len(B) |-> SubSeq(s, B[k], E[k])]

Words(s) ==
    WordsAt(s, Ascending(WordStarts(s), 1, Len(s)),
               Ascending(WordEnds(s), 1, Len(s)))

\* len(s.split())
WordCount(s) == Cardinality(WordStarts(s))

\* sep.join(parts[a..b])
RECURSIVE JoinFrom(_, _, _, _)
JoinFrom(parts, sep, a, b) ==
    IF a > b THEN ""
    ELSE IF a = b THEN parts[a]
    ELSE JoinFrom(parts, sep, a, (a + b) \div 2) \o sep
         \o JoinFrom(parts, sep, ((a + b) \div 2) + 1, b)

Join(parts, sep) == JoinFrom(parts, sep, 1, Len(parts))

\* seq[:n] for a list
TakeSeq(q, n) == SubSeq(q, 1, Min(n, Len(q)))

\* the elements of a list that satisfy a test, in order
Filter(q, Test(_)) == Pick(q, {i \in 1..Len(q) : Test(q[i])})

\* the last n elements of a list: q[-n:], where q[-0:] is the whole list
LastSeq(q, n) ==
    IF n = 0 \/ n >= Len(q) THEN q ELSE SubSeq(q, Len(q) - n + 1, Len(q))

\* -(-a // b) for the negative floor division in words[-max_length//3:]
CeilDiv(a, b) == (a + b - 1) \div b

\* s[:n] + "..." if len(s) > n else s
Ellipsize(s, n) == IF Len(s) > n THEN Take(s, n) \o "..." ELSE s

----------------------------------------------------------------------------
(* Insight extractor                                                       *)

\* str.startswith markers of the source restricted to ASCII: the bullet
\* glyphs of the source tuples cannot occur in an ASCII text
HeaderPrefixes == {"**", "#", "-", "*"}
HeaderMarkers == {"**", "##", "###"}
SectionBreaks == {"**", "#", "##"}

\* prd_agent.py:592-596: the line names the keyword and looks like a header
IsKeywordHeader(line, keyword) ==
    /\ Contains(Lower(line), Lower(keyword))
    /\ \/ StartsWithAny(Strip(line), HeaderPrefixes)
       \/ EndsWith(Strip(line), ":")
       \/ \E m \in HeaderMarkers : Contains(line, m)

\* prd_agent.py:602-605: a non-blank line that starts a new section
IsSectionBreak(line) ==
    /\ Strip(line) # ""
    /\ \/ StartsWithAny(line, SectionBreaks)
       \/ (EndsWith(Strip(line), ":") /\ Len(Strip(line)) < 50)

\* the lines at the indices K, stripped
StrippedAt(lines, at) == [k \in 1..Len(at) |-> Strip(lines[at[k]])]
StrippedLines(lines, K) == StrippedAt(lines, Ascending(K, 1, Len(lines)))

\* prd_agent.py:590-598: the lines that are headers naming the keyword
HeaderLines(lines, keyword) ==
    {i \in 1..Len(lines) : IsKeywordHeader(lines[i], keyword)}

\* prd_agent.py:600-605: where the section that starts after line `first`
\* stops: at the next section break that is not such a header
SectionStop(lines, H, first) ==
    Least({i \in (first + 1)..Len(lines) :
              i \notin H /\ IsSectionBreak(lines[i])} \cup {Len(lines) + 1})

\* prd_agent.py:599-609: the stripped non-blank lines of the section
SectionLines(lines, H, first, stop) ==
    StrippedLines(lines, {i \in (first + 1)..(stop - 1) :
                             i \notin H /\ Strip(lines[i]) # ""})

SectionAfter(lines, H) ==
    IF H = {} THEN <<>>
    ELSE SectionLines(lines, H, Least(H), SectionStop(lines, H, Least(H)))

\* prd_agent.py:584-609: the stripped non-blank lines that follow the first
\* header naming the keyword, up to the next section break; later headers that
\* name the keyword are skipped and do not end the section
SectionContent(text, keyword) ==
    SectionAfter(Split(text, "\n"), HeaderLines(Split(text, "\n"), keyword))

\* the shortest prefix of a list whose join is longer than limit, or the list
UntilLonger(all, limit) ==
    TakeSeq(all, Least({n \in 1..Len(all) :
                           Len(Join(SubSeq(all, 1, n), " ")) > limit}
                       \cup {Len(all)}))

\* prd_agent.py:619-623: the stripped sentences that name the keyword
KeywordSentences(sentences, keyword) ==
    StrippedLines(sentences,
        {i \in 1..Len(sentences) :
            /\ Contains(Lower(sentences[i]), Lower(keyword))
            /\ Len(Strip(sentences[i])) > 10})

\* prd_agent.py:619-626: those sentences, collected until their join is longer
\* than 200 characters
RelevantSentences(text, keyword) ==
    UntilLonger(KeywordSentences(Split(text, "."), keyword), 200)

\* prd_agent.py:610-611: the section found is long enough
HasSection(content) == content # <<>> /\ Len(Join(content, " ")) > 20

\* prd_agent.py:628-636
GeneralSummary(words, keywords) ==
    IF Len(words) > 10
    THEN IF Len(words) > 50 THEN Join(TakeSeq(words, 50), " ") \o "..."
         ELSE Join(words, " ")
    ELSE "Analysis available but specific " \o Join(keywords, ", ")
         \o " details need refinement"

\* prd_agent.py:572-636, given the keywords that find a section (byHeader)
\* and those that find sentences (bySentence)
RobustChoice(text, keywords, byHeader, bySentence) ==
    IF text = "" THEN "Analysis needed for " \o Join(keywords, ", ")
    ELSE IF byHeader # {}
    THEN Ellipsize(Join(SectionContent(text, keywords[Least(byHeader)]), " "),
                   300)
    ELSE IF bySentence # {}
    THEN Join(RelevantSentences(text, keywords[Least(bySentence)]), " ")
    ELSE GeneralSummary(Words(text), keywords)

\* prd_agent.py:572-636
_extract_section_robust(text, keywords) ==
    RobustChoice(text, keywords,
        {k \in 1..Len(keywords) :
            HasSection(SectionContent(text, keywords[k]))},
        {k \in 1..Len(keywords) :
            RelevantSentences(text, keywords[k]) # <<>>})

SummaryBullets == {"-", "*", "1.", "2.", "3.", "4.", "5."}

\* prd_agent.py:649-652
IsSummaryPoint(line) ==
    \/ StartsWithAny(line, SummaryBullets)
    \/ Contains(Lower(line), "key")
    \/ Contains(Lower(line), "important")

\* prd_agent.py:647-655: the key-point lines, collected until their join is
\* longer than max_length - 50
SummaryKeyPoints(text, max_length) ==
    UntilLonger(Filter(StrippedLines(Split(text, "\n"),
                                     1..Len(Split(text, "\n"))),
                       IsSummaryPoint),
                max_length - 50)

\* prd_agent.py:657-667
SummaryOf(text, max_length, points, words) ==
    IF points # <<>> THEN Join(points, " ")
    ELSE IF Len(words) > max_length \div 4
    THEN Join(TakeSeq(words, max_length \div 3), " ")
         \o "... [analysis continues]... "
         \o Join(LastSeq(words, CeilDiv(max_length, 4)), " ")
    ELSE Ellipsize(text, max_length)

\* a summary without the placeholder of an empty text
SummaryUnguarded(text, max_length) == Take(text, max_length)

\* prd_agent.py:638-667
_create_summary(text, max_length) ==
    IF text = "" THEN "Analysis pending"
    ELSE IF Len(text) <= max_length THEN text
    ELSE SummaryOf(text, max_length, SummaryKeyPoints(text, max_length),
                   Words(text))

\* dict.get(key, default)
Get(d, key, default) == IF key \in DOMAIN d THEN d[key] ELSE default

SummaryMaxLength == 400

\* prd_agent.py:524-570: which stage response and which keywords feed each
\* insight key; an empty keyword list marks the keys built by _create_summary
InsightSources ==
    [situation_analysis |-> <<"circles_comprehend_the_situation",
        <<"current state", "situation", "problem", "challenge">> >>,
     market_context |-> <<"circles_comprehend_the_situation",
        <<"market", "competitive", "industry", "external">> >>,
     business_context |-> <<"circles_comprehend_the_situation",
        <<"business", "strategic", "goals", "objectives">> >>,
     technical_context |-> <<"circles_comprehend_the_situation",
        <<"technical", "technology", "system", "platform">> >>,
     customer_identification |-> <<"circles_identify_the_customer",
        <<"primary customer", "main user", "target user", "customer">> >>,
     customer_segments |-> <<"circles_identify_the_customer",
        <<"segment", "persona", "user type", "customer type">> >>,
     customer_context |-> <<"circles_identify_the_customer",
        <<"context", "workflow", "process", "environment">> >>,
     functional_needs |-> <<"circles_report_the_customers_needs",
        <<"functional", "feature", "capability", "requirement">> >>,
     non_functional_needs |-> <<"circles_report_the_customers_needs",
        <<"non-functional", "performance", "security", "scalability">> >>,
     business_goals |-> <<"circles_report_the_customers_needs",
        <<"business need", "business goal", "outcome", "value">> >>,
     customer_needs_summary |-> <<"circles_report_the_customers_needs", <<>> >>,
     mvp_definition |-> <<"circles_cut_through_prioritization",
        <<"mvp", "minimum viable", "core", "essential">> >>,
     priority_features |-> <<"circles_cut_through_prioritization",
        <<"must have", "high priority", "critical", "essential">> >>,
     optional_features |-> <<"circles_cut_through_prioritization",
        <<"nice to have", "optional", "future", "enhancement">> >>,
     solution_options |-> <<"circles_list_solutions", <<>> >>,
     risk_mitigation |-> <<"circles_evaluate_trade_offs",
        <<"risk", "mitigation", "challenge", "concern">> >>,
     performance_targets |-> <<"circles_evaluate_trade_offs",
        <<"performance", "speed", "target", "metric">> >>,
     recommendations_summary |-> <<"circles_summarize_recommendations", <<>> >>,
     success_metrics |-> <<"circles_summarize_recommendations",
        <<"success", "metric", "measurement", "kpi">> >>,
     implementation_phases |-> <<"circles_summarize_recommendations",
        <<"implementation", "phase", "timeline", "roadmap">> >>]

\* prd_agent.py:524-570
_extract_circles_insights(circles_responses) ==
    [key \in DOMAIN InsightSources |->
        LET text == Get(circles_responses, InsightSources[key][1], "")
            keywords == InsightSources[key][2]
        IN  IF keywords = <<>> THEN _create_summary(text, SummaryMaxLength)
            ELSE _extract_section_robust(text, keywords)]


----------------------------------------------------------------------------
(* Table synthesizers                                                      *)

\* any(line.startswith(f'{i}.') for i in range(1, 20))
StartsNumbered(line) == \E i \in 1..19 : StartsWith(line, ToString(i) \o ".")

Digits == {"0", "1", "2", "3", "4", "5", "6", "7", "8", "9"}

\* f"{n:03d}"
Pad3(n) ==
    IF n < 10 THEN "00" \o ToString(n)
    ELSE IF n < 100 THEN "0" \o ToString(n) ELSE ToString(n)

\* [F(x) for x in q]
Map(q, F(_)) == [k \in 1..Len(q) |-> F(q[k])]

\* prd_agent.py:709 and 995: line.lstrip('-*.0123456789 ').strip()
CleanListLine(line) ==
    Strip(LStripChars(line, {"-", "*", ".", " "} \cup Digits))

\* prd_agent.py:706-708: a stripped line that lists or names a feature
IsFeatureLine(line) ==
    /\ line # ""
    /\ \/ StartsWithAny(line, {"-", "*"})
       \/ StartsNumbered(line)
       \/ Contains(Lower(line), "feature")
       \/ Contains(Lower(line), "capability")
       \/ Contains(Lower(line), "function")

\* prd_agent.py:710
IsFeatureLength(clean) == clean # "" /\ Len(clean) > 15 /\ Len(clean) < 100

\* prd_agent.py:704-721: the cleaned list lines of a plausible length
RequirementFeatures(all_text) ==
    IF Strip(all_text) = "" THEN <<>>
    ELSE Filter(Map(Filter(Map(Split(all_text, "\n"), Strip), IsFeatureLine),
                    CleanListLine),
                IsFeatureLength)

ActionWords == <<"create", "manage", "view", "edit", "delete", "search",
                 "filter", "sort", "export", "import", "configure", "monitor",
                 "track", "analyze", "report">>

GenericFeatures == <<"Core business functionality",
                     "User authentication and access",
                     "Data management and storage",
                     "User interface and navigation",
                     "System configuration and settings">>

\* w in words
HasWord(ws, w) == \E i \in 1..Len(ws) : ws[i] = w

\* prd_agent.py:776-788: the domain features and whether the text names them
DomainFeatures(ws) ==
    <<<<HasWord(ws, "user"), "User management and authentication">>,
      <<HasWord(ws, "data"), "Data processing and storage">>,
      <<HasWord(ws, "interface") \/ HasWord(ws, "ui"),
        "User interface and experience">>,
      <<HasWord(ws, "integration"), "System integration capabilities">>,
      <<HasWord(ws, "security"), "Security and access control">>,
      <<HasWord(ws, "report") \/ HasWord(ws, "analytics"),
        "Reporting and analytics">> >>

IsFlagged(pair) == pair[1]
Second(pair) == pair[2]
ActionFeature(action) == Title(action) \o " functionality"

\* prd_agent.py:766-788: the features read off the words of the text
FeaturesFromWords(ws) ==
    Map(Filter(ActionWords, LAMBDA a : HasWord(ws, a)), ActionFeature)
    \o Map(Filter(DomainFeatures(ws), IsFlagged), Second)

\* prd_agent.py:790-800
FeaturesOrGeneric(features) ==
    IF features = <<>> THEN GenericFeatures ELSE TakeSeq(features, 8)

\* prd_agent.py:760-800
_generate_default_features(text) ==
    FeaturesOrGeneric(IF text = "" THEN <<>>
                      ELSE FeaturesFromWords(Words(Lower(text))))

\* prd_agent.py:731-752: the row of the feature at 0-based position i
RequirementRow(feature, i) ==
    "| REQ-" \o Pad3(i + 1) \o " | Core | "
    \o (IF i < 3 THEN "Yes" ELSE "No") \o " | "
    \o (IF i < 3 THEN "Must Have"
        ELSE IF i < 6 THEN "Should Have" ELSE "Could Have")
    \o " | " \o feature \o " | "
    \o (IF StartsWith(Lower(feature), "as a") THEN feature
        ELSE "As a user, I want to " \o Lower(feature))
    \o " | " \o "Given the system is operational, when I "
    \o Lower(Take(feature, 30)) \o "..., then the feature works as expected"
    \o " | "
    \o (IF Contains(Lower(feature), "business") THEN "Product"
        ELSE "Engineering")
    \o " | " \o (IF i < 3 THEN "QA" ELSE "UAT") \o " | "
    \o (IF i < 2 THEN "Large" ELSE IF i < 5 THEN "Medium" ELSE "Small")
    \o " |"

FallbackRequirementRow ==
    "| REQ-001 | Core | Yes | Must Have | Core product functionality | As a user, I want essential features | Given core functionality, when I use the system, then it meets my basic needs | Engineering | QA | Medium |"

\* prd_agent.py:694-702
RequirementsText(insights) ==
    Get(insights, "functional_needs", "") \o " "
    \o Get(insights, "priority_features", "") \o " "
    \o Get(insights, "customer_needs_summary", "")

\* prd_agent.py:723-725: the default features stand in when none was found
FeaturesOrDefault(found, all_text) ==
    IF found = <<>> THEN _generate_default_features(all_text) ELSE found

\* prd_agent.py:728-752
RequirementRows(features) ==
    [k \in 1..Len(features) |-> RequirementRow(features[k], k - 1)]

\* prd_agent.py:754-758
RowsOrFallback(table_rows) ==
    IF table_rows = <<>> THEN FallbackRequirementRow
    ELSE Join(table_rows, "\n")

RequirementsFrom(all_text) ==
    RowsOrFallback(RequirementRows(TakeSeq(
        FeaturesOrDefault(RequirementFeatures(all_text), all_text), 8)))

\* prd_agent.py:691-758
_generate_requirements_table(insights) ==
    RequirementsFrom(RequirementsText(insights))

PersonaKeywords == {"persona", "user type", "customer segment", "target user",
                    "primary user", "secondary user"}
RoleKeywords == {"manager", "administrator", "analyst", "developer",
                 "executive", "employee", "customer", "client"}

ContainsAny(s, ks) == \E k \in ks : Contains(s, k)

\* s.replace(old, "") for a one-character old
Remove(s, old) == Join(Split(s, old), "")

\* prd_agent.py:861-869
NewPersona(line) ==
    [name |-> Strip(Remove(IF Len(line) < 40 THEN Take(line, 40)
                           ELSE Words(line)[1] \o " User", ":")),
     demographics |-> "Professional user",
     goals |-> "Achieve efficiency and productivity",
     pain_points |-> "Current process limitations",
     use_cases |-> "Daily operational workflows",
     metrics |-> "Time saved and accuracy improved"]

\* prd_agent.py:872-882, l being the line in lower case
PersonaAttributeOf(current, line, l) ==
    IF ContainsAny(l, {"age", "demographic", "background", "experience"})
    THEN [current EXCEPT !.demographics = Take(line, 50)]
    ELSE IF ContainsAny(l, {"goal", "objective", "want", "need"})
    THEN [current EXCEPT !.goals = Take(line, 60)]
    ELSE IF ContainsAny(l, {"pain", "problem", "challenge", "frustration"})
    THEN [current EXCEPT !.pain_points = Take(line, 60)]
    ELSE IF ContainsAny(l, {"use case", "scenario", "workflow", "task"})
    THEN [current EXCEPT !.use_cases = Take(line, 60)]
    ELSE IF ContainsAny(l, {"success", "metric", "measure", "kpi"})
    THEN [current EXCEPT !.metrics = Take(line, 50)]
    ELSE current

PersonaAttribute(current, line) == PersonaAttributeOf(current, line, Lower(line))

\* prd_agent.py:851-855
IsPersonaLine(l) == ContainsAny(l, PersonaKeywords) \/ ContainsAny(l, RoleKeywords)

\* prd_agent.py:848-887: the loop over the stripped non-blank lines from
\* position i on; current is the persona being filled, <<>> when there is none
RECURSIVE PersonaScan(_, _, _, _)
PersonaScan(lines, i, current, personas) ==
    IF i > Len(lines)
    THEN IF current # <<>> THEN Append(personas, current) ELSE personas
    ELSE IF IsPersonaLine(Lower(lines[i]))
    THEN PersonaScan(lines, i + 1, NewPersona(lines[i]),
                     IF current # <<>> THEN Append(personas, current)
                     ELSE personas)
    ELSE IF current # <<>>
    THEN PersonaScan(lines, i + 1, PersonaAttribute(current, lines[i]), personas)
    ELSE PersonaScan(lines, i + 1, current, personas)

NonBlank(line) == Strip(line) # ""

\* prd_agent.py:836-887
_extract_personas_from_text_enhanced(text) ==
    PersonaScan(Map(Filter(Split(text, "\n"), NonBlank), Strip), 1, <<>>, <<>>)

BusinessPersonas == <<
    [name |-> "Business User",
     demographics |-> "Professional, 25-45 years, business domain expertise",
     goals |-> "Streamline operations and improve efficiency",
     pain_points |-> "Manual processes and data silos",
     use_cases |-> "Daily business operations and reporting",
     metrics |-> "Time savings and process efficiency"],
    [name |-> "Administrative User",
     demographics |-> "Professional, 30-50 years, admin experience",
     goals |-> "Manage system configuration and user access",
     pain_points |-> "Complex administrative tasks",
     use_cases |-> "System administration and user management",
     metrics |-> "System uptime and user satisfaction"] >>

CustomerPersonas == <<
    [name |-> "End Customer",
     demographics |-> "Varied demographics, digital natives",
     goals |-> "Quick and easy service access",
     pain_points |-> "Complicated interfaces and slow responses",
     use_cases |-> "Self-service and information access",
     metrics |-> "Task completion rate and satisfaction"] >>

TechnicalPersonas == <<
    [name |-> "Technical User",
     demographics |-> "Technical professional, 25-40 years",
     goals |-> "Integrate and maintain technical systems",
     pain_points |-> "Limited documentation and complex APIs",
     use_cases |-> "System integration and maintenance",
     metrics |-> "Integration success and system reliability"] >>

FallbackPersonas == <<
    [name |-> "Primary User",
     demographics |-> "Professional user, varied background",
     goals |-> "Accomplish tasks efficiently and effectively",
     pain_points |-> "Current process inefficiencies",
     use_cases |-> "Core product functionality usage",
     metrics |-> "Task completion and user satisfaction"],
    [name |-> "Secondary User",
     demographics |-> "Occasional user, basic technical skills",
     goals |-> "Access information and perform basic tasks",
     pain_points |-> "Complexity and learning curve",
     use_cases |-> "Periodic information access and basic operations",
     metrics |-> "Ease of use and success rate"] >>

\* prd_agent.py:895-945, text_lower being the text in lower case
PersonasNamedIn(text_lower) ==
    (IF ContainsAny(text_lower,
            {"enterprise", "business", "corporate", "organization"})
     THEN BusinessPersonas ELSE <<>>)
    \o (IF ContainsAny(text_lower, {"customer", "client", "external", "public"})
        THEN CustomerPersonas ELSE <<>>)
    \o (IF ContainsAny(text_lower, {"technical", "developer", "IT", "system"})
        THEN TechnicalPersonas ELSE <<>>)

\* default personas without the generic ones of last resort
PersonasAsFound(personas) == personas

\* prd_agent.py:947-959
PersonasOrFallback(personas) ==
    IF personas = <<>> THEN FallbackPersonas ELSE personas

\* prd_agent.py:889-959
_generate_default_personas(text) ==
    PersonasOrFallback(PersonasNamedIn(Lower(text)))

\* prd_agent.py:822-832
PersonaRow(persona) ==
    "| " \o Take(persona.name, 30) \o " | " \o Take(persona.demographics, 50)
    \o " | " \o Take(persona.goals, 60) \o " | " \o Take(persona.pain_points, 60)
    \o " | " \o Take(persona.use_cases, 60) \o " | " \o Take(persona.metrics, 50)
    \o " |"

\* prd_agent.py:805-811
PersonasText(insights) ==
    Get(insights, "customer_identification", "") \o " "
    \o Get(insights, "customer_segments", "") \o " "
    \o Get(insights, "customer_context", "")

\* prd_agent.py:813-814
PersonasIn(all_text) ==
    IF Strip(all_text) # "" THEN _extract_personas_from_text_enhanced(all_text)
    ELSE <<>>

ExtractedPersonas(insights) == PersonasIn(PersonasText(insights))

\* prd_agent.py:816-818: the default personas stand in when none was found
PersonasOrDefault(found, all_text) ==
    IF found = <<>> THEN _generate_default_personas(all_text) ELSE found

\* prd_agent.py:820-834
PersonaRows(personas) == Join(Map(personas, PersonaRow), "\n")

PersonasFrom(all_text) ==
    PersonaRows(TakeSeq(PersonasOrDefault(PersonasIn(all_text), all_text), 4))

\* prd_agent.py:802-834
_generate_personas_table(insights) == PersonasFrom(PersonasText(insights))

\* prd_agent.py:961-978
_generate_stakeholder_table(insights) ==
    Join(<<"| Product Owner | Business Lead | High | High | Daily | Business outcomes |",
           "| End Users | Primary Users | Medium | High | As needed | Usability & value |",
           "| Development Team | Implementation | High | Medium | Daily | Technical feasibility |",
           "| Executive Sponsor | Decision Maker | High | Medium | Weekly | ROI & timeline |">>,
         "\n")

\* prd_agent.py:993-994
IsBulletLine(line) == StartsWithAny(line, {"-", "*"}) \/ StartsNumbered(line)

\* prd_agent.py:996
IsPriorityLength(clean) == clean # "" /\ Len(clean) > 10

Cut50(clean) == Take(clean, 50)

\* prd_agent.py:990-998: the list lines of one insight text, cleaned and cut
PriorityFeatures(text) ==
    IF text = "" THEN <<>>
    ELSE Map(Filter(Map(Filter(Map(Split(text, "\n"), Strip), IsBulletLine),
                        CleanListLine),
                    IsPriorityLength),
             Cut50)

GenericPriorityFeatures == <<"Core functionality implementation",
                             "User authentication and access",
                             "Data management and storage",
                             "User interface and experience",
                             "Integration capabilities">>

\* prd_agent.py:1010-1011
PriorityLevels == <<"High", "High", "Medium", "Medium", "Low">>
PriorityPhases == <<"MVP", "MVP", "Phase 1", "Phase 1", "Phase 2">>

\* prd_agent.py:1012-1023, given the business value of the feature
PriorityRowOf(feature, k, business_value) ==
    "| " \o feature \o " | " \o business_value \o " | "
    \o (IF business_value = "High" THEN "Medium" ELSE "Low") \o " | "
    \o (IF business_value = "High" THEN "Low" ELSE "Medium") \o " | "
    \o (IF business_value = "High" THEN "90"
        ELSE IF business_value = "Medium" THEN "70" ELSE "50") \o " | "
    \o (IF k <= Len(PriorityPhases) THEN PriorityPhases[k] ELSE "Future")
    \o " | TBD |"

\* prd_agent.py:1012-1023: the row of the feature at 1-based position k
PriorityRow(feature, k) ==
    PriorityRowOf(feature, k,
        IF k <= Len(PriorityLevels) THEN PriorityLevels[k] ELSE "Medium")

\* prd_agent.py:983-998
ExtractedPriorityFeatures(insights) ==
    PriorityFeatures(Get(insights, "functional_needs", ""))
    \o PriorityFeatures(Get(insights, "priority_features", ""))

\* prd_agent.py:1000-1008: generic features stand in when none was found
PriorityOrGeneric(found) ==
    IF found = <<>> THEN GenericPriorityFeatures ELSE found

PriorityRows(features) ==
    Join([k \in 1..Len(features) |-> PriorityRow(features[k], k)], "\n")

\* prd_agent.py:980-1025
_generate_prioritization_table(insights) ==
    PriorityRows(TakeSeq(PriorityOrGeneric(ExtractedPriorityFeatures(insights)),
                         5))


----------------------------------------------------------------------------
(* Coverage scorer                                                         *)

\* prd_agent.py:1468-1518: the dimensions in dict order and their keywords
CirclesDimensions == <<"C1_Comprehend", "I_Identify", "R_Report", "C2_Cut",
                       "L_List", "E_Evaluate", "S_Summarize">>

CirclesKeywords ==
    [C1_Comprehend |-> <<"problem", "context", "background", "situation",
                         "challenge", "current state", "market">>,
     I_Identify |-> <<"user", "customer", "persona", "stakeholder", "target",
                      "demographics", "segment">>,
     R_Report |-> <<"requirement", "need", "feature", "functionality",
                    "specification", "acceptance criteria", "user story">>,
     C2_Cut |-> <<"priority", "must have", "should have", "could have",
                  "prioritization", "mvp", "essential">>,
     L_List |-> <<"solution", "approach", "option", "alternative",
                  "implementation", "design", "architecture">>,
     E_Evaluate |-> <<"trade-off", "pros", "cons", "comparison", "evaluation",
                      "risk", "benefit", "cost">>,
     S_Summarize |-> <<"recommendation", "conclusion", "next steps", "summary",
                       "decision", "action plan", "timeline">>]

\* prd_agent.py:1523-1527
ExecutionIndicators ==
    <<"circles framework", "circles analysis", "comprehend the situation",
      "identify the customer", "report customer needs",
      "cut through prioritization", "list solutions", "evaluate trade-offs",
      "summarize recommendations">>

\* prd_agent.py:1551-1555
ComprehensiveIndicators ==
    <<"requirements table", "personas table", "stakeholder matrix",
      "success metrics", "implementation plan", "acceptance criteria",
      "user stories", "functional requirements",
      "non-functional requirements">>

\* The code computes percentages in floating point.  The model keeps them as
\* exact fractions: a dimension percentage p is held as p * CovScale, where
\* CovScale is a common multiple of the keyword-list lengths 7 and 8 and of
\* the denominators of the boost factors 1.5 and 1.2, and the aggregate a is
\* held as a * CovUnit, the mean over 7 dimensions being their sum.
CovScale == 7 * 8 * 10
CovUnit == CovScale * Len(CirclesDimensions)

\* prd_agent.py:1538: (found / total) * 100
BaseCoverage(nfound, nkeywords) == (nfound * 100 * CovScale) \div nkeywords

\* a boost without the cap at 100
BoostedUncapped(nfound, base_coverage) ==
    IF nfound > 0 THEN (base_coverage * 15) \div 10
    ELSE (base_coverage * 12) \div 10

\* prd_agent.py:1542-1543: the base percentage times 1.5 when a keyword was
\* found and times 1.2 otherwise, capped at 100
Boosted(nfound, base_coverage) ==
    Min(100 * CovScale,
        IF nfound > 0 THEN (base_coverage * 15) \div 10
        ELSE (base_coverage * 12) \div 10)

\* prd_agent.py:1540-1548
DimensionFrom(nfound, base_coverage, has_circles_execution) ==
    IF has_circles_execution
    THEN [coverage_percentage |-> Boosted(nfound, base_coverage),
          covered |-> Boosted(nfound, base_coverage) > 20 * CovScale]
    ELSE [coverage_percentage |-> base_coverage, covered |-> nfound > 0]

\* prd_agent.py:1537-1548: coverage_percentage and covered of one dimension
\* from the number of keywords found
DimensionCoverage(nfound, nkeywords, has_circles_execution) ==
    DimensionFrom(nfound, BaseCoverage(nfound, nkeywords), has_circles_execution)

\* an aggregate that adds its bonus without the cap
OverallUncapped(sum_percentages, comprehensive_score, has_circles_execution) ==
    IF has_circles_execution /\ comprehensive_score >= 5
    THEN sum_percentages + Min(20, comprehensive_score * 2) * CovUnit
    ELSE IF has_circles_execution THEN sum_percentages + 15 * CovUnit
    ELSE sum_percentages

\* prd_agent.py:1557-1569: overall_coverage from the sum of the dimension
\* percentages and the number of structure indicators found
OverallCoverage(sum_percentages, comprehensive_score, has_circles_execution) ==
    IF has_circles_execution /\ comprehensive_score >= 5
    THEN Min(95 * CovUnit,
             sum_percentages + Min(20, comprehensive_score * 2) * CovUnit)
    ELSE IF has_circles_execution
    THEN Min(85 * CovUnit, sum_percentages + 15 * CovUnit)
    ELSE sum_percentages

\* sum of f[d] over the 7 dimensions
SumOverDimensions(f) ==
    f["C1_Comprehend"] + f["I_Identify"] + f["R_Report"] + f["C2_Cut"]
    + f["L_List"] + f["E_Evaluate"] + f["S_Summarize"]

\* prd_agent.py:1537: the keywords of dimension d the content holds
FoundKeywords(content_lower, d) ==
    Filter(CirclesKeywords[d], LAMBDA keyword : Contains(content_lower, keyword))

\* prd_agent.py:1529-1530
HasCirclesExecution(content_lower) ==
    \E i \in 1..Len(ExecutionIndicators) :
        Contains(content_lower, ExecutionIndicators[i])

\* prd_agent.py:1557
ComprehensiveScore(content_lower) ==
    Cardinality({i \in 1..Len(ComprehensiveIndicators) :
                    Contains(content_lower, ComprehensiveIndicators[i])})

\* prd_agent.py:1545-1549
StepEntry(found_keywords, c) ==
    [found_keywords |-> found_keywords,
     coverage_percentage |-> c.coverage_percentage,
     covered |-> c.covered]

StepCoverage(found_keywords, nkeywords, has_circles_execution) ==
    StepEntry(found_keywords,
              DimensionCoverage(Len(found_keywords), nkeywords,
                                has_circles_execution))

\* prd_agent.py:1534-1549
StepsCoverage(content_lower, has_circles_execution) ==
    [d \in DOMAIN CirclesKeywords |->
        StepCoverage(FoundKeywords(content_lower, d), Len(CirclesKeywords[d]),
                     has_circles_execution)]

\* prd_agent.py:1571-1580
CoverageReport(steps, overall_coverage, has_circles_execution, comprehensive_score) ==
    [steps |-> steps,
     overall_coverage |-> overall_coverage,
     circles_framework_executed |-> has_circles_execution,
     comprehensive_structure |-> comprehensive_score >= 5,
     analysis_quality |->
         IF overall_coverage >= 80 * CovUnit THEN "Excellent"
         ELSE IF overall_coverage >= 60 * CovUnit THEN "Good" ELSE "Basic"]

\* prd_agent.py:1559-1569
ReportOf(steps, has_circles_execution, comprehensive_score) ==
    CoverageReport(steps,
        OverallCoverage(SumOverDimensions([d \in DOMAIN steps |->
                                              steps[d].coverage_percentage]),
                        comprehensive_score, has_circles_execution),
        has_circles_execution, comprehensive_score)

AnalysisFrom(content_lower, has_circles_execution) ==
    ReportOf(StepsCoverage(content_lower, has_circles_execution),
             has_circles_execution, ComprehensiveScore(content_lower))

AnalysisOf(content_lower) ==
    AnalysisFrom(content_lower, HasCirclesExecution(content_lower))

\* prd_agent.py:1464-1580
_analyze_circles_coverage(prd_content) == AnalysisOf(Lower(prd_content))


----------------------------------------------------------------------------
(* Context summarizer, context budgeter and prompt truncators              *)

\* prd_agent.py:151-159
\* a stage list in which the second stage stands twice
circles_steps_repeated == <<"circles_comprehend_the_situation",
                            "circles_identify_the_customer",
                            "circles_identify_the_customer",
                            "circles_cut_through_prioritization",
                            "circles_list_solutions",
                            "circles_evaluate_trade_offs",
                            "circles_summarize_recommendations">>

circles_steps == <<"circles_comprehend_the_situation",
                   "circles_identify_the_customer",
                   "circles_report_the_customers_needs",
                   "circles_cut_through_prioritization",
                   "circles_list_solutions",
                   "circles_evaluate_trade_offs",
                   "circles_summarize_recommendations">>

\* the keys of a responses dict in insertion order, which is stage order
KeysInOrder(d) == Filter(circles_steps, LAMBDA s : s \in DOMAIN d)

\* s.replace(old, new) for a one-character old
Replace(s, old, new) == Join(Split(s, old), new)

\* prd_agent.py:266-269: a stripped line that reads as a key point
IsKeyPointLine(line) ==
    \/ StartsWithAny(line, {"- ", "* "})
    \/ StartsNumbered(line)
    \/ ContainsAny(Lower(line),
                   {"key", "important", "primary", "main", "critical"})

Cut100(line) == Take(line, 100)

\* prd_agent.py:265-272: the key-point lines cut to 100 characters, collected
\* until their join is longer than max_length - 50
ResponseKeyPoints(response, max_length) ==
    UntilLonger(Map(Filter(Map(Split(response, "\n"), Strip), IsKeyPointLine),
                    Cut100),
                max_length - 50)

\* prd_agent.py:277-279: the first and the last words of the response
WordSummary(words, max_length) ==
    Join(TakeSeq(words, max_length \div 3), " ") \o "... [key findings]... "
    \o Join(LastSeq(words, CeilDiv(max_length, 3)), " ")

\* prd_agent.py:274-279
SummaryFrom(key_points, response, max_length) ==
    IF key_points # <<>> THEN Join(key_points, " ")
    ELSE WordSummary(Words(response), max_length)

\* prd_agent.py:256-283
_summarize_response(response, max_length) ==
    IF Len(response) <= max_length THEN response
    ELSE Ellipsize(SummaryFrom(ResponseKeyPoints(response, max_length),
                               response, max_length),
                   max_length)

\* prd_agent.py:222-229
step_relevance ==
    [circles_identify_the_customer |-> <<"circles_comprehend_the_situation">>,
     circles_report_the_customers_needs |->
        <<"circles_comprehend_the_situation", "circles_identify_the_customer">>,
     circles_cut_through_prioritization |->
        <<"circles_report_the_customers_needs">>,
     circles_list_solutions |->
        <<"circles_report_the_customers_needs",
          "circles_cut_through_prioritization">>,
     circles_evaluate_trade_offs |->
        <<"circles_cut_through_prioritization", "circles_list_solutions">>,
     circles_summarize_recommendations |->
        <<"circles_cut_through_prioritization", "circles_list_solutions",
          "circles_evaluate_trade_offs">>]

SummaryLength == 300

\* step.replace('circles_', '').replace('_', ' ').title()
StepTitle(s) ==
    Title(Replace(IF StartsWith(s, "circles_") THEN Drop(s, 8) ELSE s, "_", " "))

\* a relevance rule that takes every stage answered so far
RelevantStepsAll(resp, current_step) == KeysInOrder(resp)

\* prd_agent.py:231-232
RelevantSteps(resp, current_step) ==
    IF current_step \in DOMAIN step_relevance
    THEN step_relevance[current_step]
    ELSE LastSeq(KeysInOrder(resp), 2)

\* prd_agent.py:239-241
ContextPart(resp, s) ==
    "\n" \o StepTitle(s) \o ": " \o _summarize_response(resp[s], SummaryLength)

\* prd_agent.py:234-241
ContextParts(resp, used) ==
    <<"--- Key Insights from Previous Analysis ---">>
    \o [k \in 1..Len(used) |-> ContextPart(resp, used[k])]

\* prd_agent.py:246-252
CutToWords(full_context, words, max_tokens) ==
    IF Len(words) > max_tokens
    THEN "...[truncated]... " \o Join(LastSeq(words, max_tokens), " ")
    ELSE full_context

CutContext(full_context, max_tokens) ==
    CutToWords(full_context, Words(full_context), max_tokens)

\* prd_agent.py:218-254
_build_smart_context(resp, current_step, max_tokens) ==
    CutContext(Join(ContextParts(resp,
                        Filter(RelevantSteps(resp, current_step),
                               LAMBDA s : s \in DOMAIN resp)),
                    "\n"),
               max_tokens)

IsNewline(s, i) == i >= 1 /\ i <= Len(s) /\ Ch(s, i) = "\n"

\* where the run of newlines that holds position i starts
RunStart(s, i) ==
    CHOOSE j \in 1..i : /\ \A m \in j..i : IsNewline(s, m)
                        /\ ~IsNewline(s, j - 1)

\* s.split("\n\n"): the separator is matched left to right without overlap, so
\* a match starts at an even offset of its run of newlines
SplitBlank(s) ==
    Pieces(s, {i \in 1..(Len(s) - 1) :
                  /\ IsNewline(s, i)
                  /\ IsNewline(s, i + 1)
                  /\ (i - RunStart(s, i)) % 2 = 0}, 2)

\* sum of the word counts of parts[1..n]
RECURSIVE WordsUpTo(_, _)
WordsUpTo(parts, n) ==
    IF n = 0 THEN 0 ELSE WordsUpTo(parts, n - 1) + WordCount(parts[n])

\* prd_agent.py:299-300
IsEssential(section) ==
    \/ StartsWith(section, "Product Idea:")
    \/ Contains(section, "Please provide")
    \/ Contains(section, "CIRCLES framework")

IsOptional(section) == ~IsEssential(section)

\* prd_agent.py:291-297: the stripped non-empty sections
Sections(prompt) == Filter(Map(SplitBlank(prompt), Strip), NonBlank)

\* remaining_tokens before optional section k, all earlier ones being added
Remaining(budget, optional_sections, k) ==
    budget - WordsUpTo(optional_sections, k - 1)

\* prd_agent.py:312-315: the optional sections that do not fit
Over(budget, optional_sections) ==
    {k \in 1..Len(optional_sections) :
        ~(WordCount(optional_sections[k])
            < Remaining(budget, optional_sections, k))}

\* prd_agent.py:319: words[:remaining_tokens - 10]
TruncatedWords(words, remaining) ==
    TakeSeq(words, Max(0, IF remaining - 10 >= 0 THEN remaining - 10
                          ELSE Len(words) + remaining - 10))

\* prd_agent.py:320-321
Marked(truncated_words) ==
    IF truncated_words # <<>>
    THEN <<Join(truncated_words, " ") \o "... [truncated]">>
    ELSE <<>>

\* prd_agent.py:316-322: what is kept of the first section that does not fit
TruncatedPart(budget, optional_sections, over) ==
    IF over = {} THEN <<>>
    ELSE Marked(TruncatedWords(Words(optional_sections[Least(over)]),
                    Remaining(budget, optional_sections, Least(over))))

\* prd_agent.py:308-322
FittedTo(essential_sections, optional_sections, budget, over) ==
    essential_sections
    \o SubSeq(optional_sections, 1,
              IF over = {} THEN Len(optional_sections) ELSE Least(over) - 1)
    \o TruncatedPart(budget, optional_sections, over)

Fitted(essential_sections, optional_sections, budget) ==
    FittedTo(essential_sections, optional_sections, budget,
             Over(budget, optional_sections))

\* prd_agent.py:305-306
ResultParts(essential_sections, optional_sections, max_tokens) ==
    Fitted(essential_sections, optional_sections,
           max_tokens - WordsUpTo(essential_sections, Len(essential_sections)))

Budgeted(sections, max_tokens) ==
    ResultParts(Filter(sections, IsEssential), Filter(sections, IsOptional),
                max_tokens)

\* prd_agent.py:285-329
_truncate_context_intelligently(prompt, max_tokens) ==
    IF WordCount(prompt) <= max_tokens THEN prompt
    ELSE Join(Budgeted(Sections(prompt), max_tokens), "\n\n")

\* prd_agent.py:1449-1456
MiddleText(middle_lines, middle_words, remaining_tokens) ==
    IF Len(middle_words) > remaining_tokens
    THEN Join(TakeSeq(middle_words, remaining_tokens - 10), " ")
         \o "... [truncated]"
    ELSE Join(middle_lines, "\n")

MiddleOf(middle_lines, remaining_tokens) ==
    MiddleText(middle_lines, Words(Join(middle_lines, "\n")), remaining_tokens)

\* prd_agent.py:1439-1462
EmergencyFrom(lines, essential_text, essential_words, max_tokens) ==
    IF Len(essential_words) > max_tokens
    THEN Join(TakeSeq(essential_words, max_tokens), " ")
         \o "\n\nPlease provide a focused analysis based on the above context."
    ELSE IF max_tokens - Len(essential_words) > 100 /\ Len(lines) > 8
    THEN Join(TakeSeq(lines, 5), "\n") \o "\n\n"
         \o MiddleOf(SubSeq(lines, 6, Len(lines) - 3),
                     max_tokens - Len(essential_words))
         \o "\n\n" \o Join(LastSeq(lines, 3), "\n")
    ELSE essential_text

EmergencyText(lines, essential_text, max_tokens) ==
    EmergencyFrom(lines, essential_text, Words(essential_text), max_tokens)

\* prd_agent.py:1433-1437: the first five and the last three lines
EmergencyLines(lines, max_tokens) ==
    EmergencyText(lines, Join(TakeSeq(lines, 5) \o LastSeq(lines, 3), "\n"),
                  max_tokens)

\* prd_agent.py:1424-1462
_emergency_truncate_prompt(prompt, max_tokens) ==
    IF WordCount(prompt) <= max_tokens THEN prompt
    ELSE EmergencyLines(Split(prompt, "\n"), max_tokens)

----------------------------------------------------------------------------
(* Prompts, files and the completion service                               *)

\* len(prompt.split()) * 1.3, held in tenths of a token
EstimatedTokens10(prompt) == WordCount(prompt) * 13

\* int(estimated_tokens)
IntTokens(prompt) == EstimatedTokens10(prompt) \div 10

\* config.py:15
GROQ_MAX_TOKENS == 8192

\* prd_agent.py:1362
max_retries == 2

\* utils/prompt_loader.py: the file's text, or the error open() raises.  The
\* directory of the prompt files is written /app/prompts.
load_prompt(files, prompt_file) ==
    IF prompt_file \in DOMAIN files
    THEN [ok |-> TRUE, text |-> files[prompt_file]]
    ELSE [ok |-> FALSE,
          text |-> "[Errno 2] No such file or directory: '/app/prompts/"
                   \o prompt_file \o "'"]

\* prd_agent.py:167: if value and len(str(value).strip()) > 0
HasValue(item) == Strip(item[2]) # ""

\* an entry that holds the value whatever its length
ContextItemUncut(item) ==
    "- " \o Title(Replace(item[1], "_", " ")) \o ": " \o item[2] \o "\n"

\* prd_agent.py:169-170
ContextItem(item) ==
    "- " \o Title(Replace(item[1], "_", " ")) \o ": "
    \o Ellipsize(item[2], 200) \o "\n"

\* prd_agent.py:162-172; conversation_data is the list of its (key, value)
\* items, empty for None and for {}
BaseContext(product_idea, conversation_data) ==
    "Product Idea: " \o product_idea \o "\n\n"
    \o (IF conversation_data # <<>>
        THEN "Additional Context:\n"
             \o Join(Map(Filter(conversation_data, HasValue), ContextItem), "")
             \o "\n"
        ELSE "")

\* prd_agent.py:187-197
StageInstructions ==
    "\n\nPlease provide a focused, comprehensive analysis for this step. "
    \o "Use clear formatting with:\n"
    \o "- **Bold headers** for main sections\n"
    \o "- Bullet points (-) for lists\n"
    \o "- Numbered lists (1., 2., 3.) for sequential items\n"
    \o "- Clear, structured content that can be easily parsed\n\n"
    \o "Your response should be detailed but concise, "
    \o "focusing on actionable insights."

\* prd_agent.py:181-184
ContextualInsights(resp, i) ==
    IF i > 1 THEN _build_smart_context(resp, circles_steps[i], 1500) ELSE ""

\* prd_agent.py:199-203: the soft truncation of a prompt estimated over 4500
SoftTruncate(full_prompt) ==
    IF EstimatedTokens10(full_prompt) > 45000
    THEN _truncate_context_intelligently(full_prompt, 4000)
    ELSE full_prompt

\* prd_agent.py:181-203: the prompt of stage i, after the soft truncation
StagePrompt(base_context, resp, i, step_prompt) ==
    SoftTruncate(base_context \o ContextualInsights(resp, i) \o "\n\n"
                 \o step_prompt \o StageInstructions)

\* a failure marker that drops the error description
FailureMarkerBare(error_str) == "Analysis step failed"

\* prd_agent.py:214
FailureMarker(error_str) == "Analysis step failed: " \o error_str

\* a request that asks for 1500 tokens whenever the prompt was cut
EmergencyRequestFlat(cut) == [prompt |-> cut, response_tokens |-> 1500]

\* prd_agent.py:1372-1374
EmergencyRequest(cut) ==
    [prompt |-> cut, response_tokens |-> Min(1500, 6000 - IntTokens(cut))]

\* prd_agent.py:1368-1377: the prompt sent and the response-token allowance
Request(prompt) ==
    IF EstimatedTokens10(prompt) > 55000
    THEN EmergencyRequest(_emergency_truncate_prompt(prompt, 4000))
    ELSE [prompt |-> prompt,
          response_tokens |->
              Min(GROQ_MAX_TOKENS, Max(500, 6000 - IntTokens(prompt)))]

\* prd_agent.py:1400
IsSizeLimit(error_str) ==
    \/ Contains(error_str, "413")
    \/ Contains(Lower(error_str), "too large")
    \/ Contains(error_str, "rate_limit_exceeded")

\* prd_agent.py:1411
IsRateLimit(error_str) == Contains(Lower(error_str), "rate_limit")

\* a degraded placeholder that leaves the prompt out
PlaceholderBare(prompt) ==
    "Analysis incomplete due to context size limitations."

\* prd_agent.py:1408
Placeholder(prompt) ==
    "Analysis incomplete due to context size limitations. Key points: "
    \o Take(prompt, 200) \o "..."

\* a backoff that waits twice as long
wait_timeDoubled(attempt) == (attempt + 1) * 4

\* prd_agent.py:1414
wait_time(attempt) == (attempt + 1) * 2

\* str(e) of the AttributeError that content.strip() raises on a None content
NoneContentError == "'NoneType' object has no attribute 'strip'"

\* json.dumps of one string: the escapes of ASCII text
JsonCh(c) ==
    IF c = "\"" THEN "\\\""
    ELSE IF c = "\\" THEN "\\\\"
    ELSE IF c = "\n" THEN "\\n"
    ELSE IF c = "\t" THEN "\\t"
    ELSE IF c = "\r" THEN "\\r"
    ELSE IF c = "\f" THEN "\\f"
    ELSE c

RECURSIVE JsonEscape(_)
JsonEscape(s) ==
    IF Len(s) = 0 THEN ""
    ELSE IF Len(s) = 1 THEN JsonCh(s)
    ELSE JsonEscape(SubSeq(s, 1, Len(s) \div 2))
         \o JsonEscape(SubSeq(s, (Len(s) \div 2) + 1, Len(s)))

JsonItem(d, key) ==
    "  \"" \o JsonEscape(key) \o "\": \"" \o JsonEscape(d[key]) \o "\""

\* json.dumps(circles_responses, indent=2)
JsonDumps(d) ==
    IF KeysInOrder(d) = <<>> THEN "{}"
    ELSE "{\n" \o Join(Map(KeysInOrder(d), LAMBDA key : JsonItem(d, key)), ",\n")
         \o "\n}"

\* s.replace(old, new) for an old that no proper prefix of itself ends, so
\* that its occurrences cannot overlap
ReplaceAll(s, old, new) ==
    Join(Pieces(s, {i \in 1..(Len(s) - Len(old) + 1) :
                       SubSeq(s, i, i + Len(old) - 1) = old}, Len(old)),
         new)


----------------------------------------------------------------------------
(* Document assembler                                                      *)

\* prd_agent.py:506-514, without the pictograph that starts each name
step_names ==
    [circles_comprehend_the_situation |-> "1. Comprehend the Situation",
     circles_identify_the_customer |-> "2. Identify the Customer",
     circles_report_the_customers_needs |-> "3. Report Customer Needs",
     circles_cut_through_prioritization |-> "4. Cut Through Prioritization",
     circles_list_solutions |-> "5. List Solutions",
     circles_evaluate_trade_offs |-> "6. Evaluate Trade-offs",
     circles_summarize_recommendations |-> "7. Summarize Recommendations"]

\* prd_agent.py:501-522
_format_circles_analysis_for_prd(circles_responses) ==
    LET keys == KeysInOrder(circles_responses)
    IN  Join([k \in 1..Len(keys) |->
                 "\n### " \o step_names[keys[k]] \o "\n"
                 \o Ellipsize(circles_responses[keys[k]], 800) \o "\n\n"], "")

\* prd_agent.py:359-382
AssemblyInstructions ==
    "=== INSTRUCTIONS ===\n"
    \o "Please generate a complete, professional PRD by:\n\n"
    \o "1. **Populate ALL template placeholders** with relevant content from the CIRCLES analysis\n"
    \o "2. **Generate professional tables** with real, business-relevant data (not placeholder text)\n"
    \o "3. **Use structured formatting** with proper headers, bullets, and professional presentation\n"
    \o "4. **Create comprehensive content** that reflects enterprise-grade business analysis\n"
    \o "5. **Include realistic data** in all tables (requirements, personas, stakeholders, metrics, etc.)\n\n"
    \o "**Table Requirements:**\n"
    \o "- Requirements table: Include 8-12 realistic requirements with proper REQ-IDs, user stories, acceptance criteria\n"
    \o "- Personas table: Create 3-5 detailed customer personas with demographics, goals, pain points\n"
    \o "- Stakeholder matrix: Include 5-8 key stakeholders with roles, influence levels, concerns\n"
    \o "- Success metrics: Define measurable KPIs with targets and measurement methods\n"
    \o "- All other tables: Populate with realistic, professional content\n\n"
    \o "**Formatting Standards:**\n"
    \o "- Use proper markdown formatting with headers, tables, lists\n"
    \o "- Professional business language throughout\n"
    \o "- Clear, actionable content in all sections\n"
    \o "- Comprehensive but concise descriptions\n\n"
    \o "Generate the complete PRD document now:\n"

\* prd_agent.py:347-382
ComprehensivePrompt(product_idea, circles_responses, prd_template) ==
    "\nBased on the comprehensive CIRCLES framework analysis below, generate a "
    \o "complete, professional Product Requirements Document using the provided "
    \o "template structure.\n\n"
    \o "=== CIRCLES FRAMEWORK ANALYSIS ===\n"
    \o _format_circles_analysis_for_prd(circles_responses) \o "\n\n"
    \o "=== PRODUCT IDEA ===\n" \o product_idea \o "\n\n"
    \o "=== PRD TEMPLATE TO POPULATE ===\n" \o prd_template \o "\n\n"
    \o AssemblyInstructions

\* prd_agent.py:1146-1164
SimplePrompt(product_idea, circles_responses) ==
    "\nBased on the product idea: " \o product_idea \o "\n\n"
    \o "And the following CIRCLES framework analysis:\n\n"
    \o JsonDumps(circles_responses) \o "\n\n"
    \o "Generate a comprehensive Product Requirements Document with the "
    \o "following structure:\n\n"
    \o "1. Executive Summary\n"
    \o "2. Problem Statement  \n"
    \o "3. Target Customers\n"
    \o "4. Requirements (Functional & Non-functional)\n"
    \o "5. Success Metrics\n"
    \o "6. Implementation Plan\n"
    \o "7. Risks and Mitigation\n\n"
    \o "Please provide a detailed, professional PRD document.\n"

\* prd_agent.py:1091-1110: the heading of each stage in the appendix
AppendixHeadings ==
    <<"**C - Comprehend the Situation:**", "**I - Identify the Customer:**",
      "**R - Report Customer Needs:**", "**C - Cut Through Prioritization:**",
      "**L - List Solutions:**", "**E - Evaluate Trade-offs:**",
      "**S - Summarize Recommendations:**">>

\* prd_agent.py:1079-1141, without the pictograph of the appendix heading
_generate_circles_appendix(circles_responses, template_id) ==
    "\n---\n\n## Appendix\n\n"
    \o "### A. Complete CIRCLES Framework Analysis\n\n"
    \o "This document was generated using a comprehensive CIRCLES framework "
    \o "methodology with detailed analysis at each step:\n\n"
    \o Join([k \in 1..Len(circles_steps) |->
                AppendixHeadings[k] \o "\n"
                \o Take(Get(circles_responses, circles_steps[k],
                            "Analysis not available"), 800)
                \o "...\n\n"], "")
    \o "### B. Generation Methodology\n"
    \o "- **Framework Used:** CIRCLES (7-step structured analysis)\n"
    \o "- **AI Model:** Groq llama-3.1-8b-instant \n"
    \o "- **Template:** " \o template_id \o "\n"
    \o "- **Generation Method:** Multi-step analysis with context building\n"
    \o "- **Quality Assurance:** Automated CIRCLES coverage analysis\n\n"
    \o "### C. Definitions and Acronyms\n"
    \o "| Term | Definition |\n"
    \o "|------|------------|\n"
    \o "| PRD | Product Requirements Document |\n"
    \o "| CIRCLES | Comprehensive framework: Comprehend, Identify, Report, Cut, List, Evaluate, Summarize |\n"
    \o "| MVP | Minimum Viable Product |\n"
    \o "| UAT | User Acceptance Testing |\n"
    \o "| BRD | Business Requirements Document |\n\n"
    \o "### D. Analysis Quality Metrics\n"
    \o "- **Framework Completeness:** All 7 CIRCLES steps executed\n"
    \o "- **Context Integration:** Previous step insights inform subsequent analysis\n"
    \o "- **Insight Extraction:** Key findings mapped to PRD sections\n"
    \o "- **Template Alignment:** Structured output following business standards\n\n"
    \o "### E. Additional Resources\n"
    \o "- CIRCLES Methodology: Product School Framework\n"
    \o "- Template Documentation: See templates/README.md  \n"
    \o "- Quality Evaluation: 6-criteria assessment system\n"
    \o "- Generation Source: Groq Lightning-Fast AI Platform\n"


\* what the clock and the uuid generator give: datetime.now() formatted as at
\* prd_agent.py:395, 396, 475 and 479, isoformat (135), uuid4 (91, 476)
ClockSessionId == "20260101-090000"
ClockDateTime == "2026-01-01 09:00:00"
ClockDate == "2026-01-01"
ClockIso == "2026-01-01T09:00:00"
FreshUuid == "0f8fad5b-d9cb-469f-a165-70867728950e"

\* prd_agent.py:437-489: the insight key and the default of each template
\* variable that is read from the insight bundle
InsightVariables ==
    [situation_context |-> <<"situation_analysis", "To be analyzed based on product description">>,
     background_analysis |-> <<"market_context", "Market and competitive analysis needed">>,
     market_context |-> <<"market_context", "Target market to be defined">>,
     business_context |-> <<"business_context", "Business objectives and goals">>,
     technical_context |-> <<"technical_context", "Technical requirements and constraints">>,
     intent_statement |-> <<"customer_needs_summary", "Primary business objectives and user needs">>,
     customer_description |-> <<"customer_identification", "Target customer segments and personas">>,
     customer_segments |-> <<"customer_segments", "Primary and secondary user groups">>,
     customer_context |-> <<"customer_context", "User scenarios and use cases">>,
     business_goals |-> <<"business_goals", "Key business objectives and success metrics">>,
     success_vision |-> <<"recommendations_summary", "Long-term vision and outcomes">>,
     functional_requirements |-> <<"functional_needs", "Core product functionality">>,
     non_functional_requirements |-> <<"non_functional_needs", "Performance, security, and scalability needs">>,
     performance_requirements |-> <<"performance_needs", "Speed, reliability, and capacity requirements">>,
     security_requirements |-> <<"security_needs", "Data protection and access control">>,
     scalability_requirements |-> <<"scalability_needs", "Growth and expansion capabilities">>,
     optional_features |-> <<"optional_features", "Future enhancements and nice-to-have features">>,
     out_of_scope |-> <<"out_of_scope", "Features explicitly not included in current version">>,
     success_metrics |-> <<"success_metrics", "Key performance indicators and measurement criteria">>,
     acceptance_criteria |-> <<"acceptance_criteria", "Specific testable requirements">>,
     performance_targets |-> <<"performance_targets", "Quantifiable performance goals">>,
     implementation_phases |-> <<"implementation_phases", "Development timeline and milestones">>,
     mvp_definition |-> <<"mvp_definition", "Minimum viable product scope">>,
     timeline |-> <<"timeline", "Project schedule and key dates">>,
     resource_requirements |-> <<"resource_requirements", "Team and infrastructure needs">>,
     risk_mitigation |-> <<"risk_mitigation", "Identified risks and mitigation strategies">>,
     monitoring_strategy |-> <<"monitoring_strategy", "Success tracking and performance monitoring">>,
     feedback_mechanisms |-> <<"feedback_mechanisms", "User feedback collection and analysis">>,
     future_enhancements |-> <<"future_enhancements", "Planned future improvements and features">>,
     success_review |-> <<"success_review", "Success criteria evaluation process">>,
     attachments |-> <<"attachments", "Supporting documents and references">>]

\* the keys of template_variables
TemplateVariableNames ==
    DOMAIN InsightVariables
    \cup {"product_name", "product_idea", "requirements_table_rows",
          "customer_personas_table", "stakeholder_matrix_table",
          "feature_prioritization_table", "generation_date", "session_id",
          "document_status", "document_version", "edit_history_rows",
          "reference_documents_rows", "template_id", "appendix_section"}

\* prd_agent.py:437-489: template_variables[name]
TemplateVariable(name, product_idea, circles_responses, insights, template_prompt, include_appendix) ==
    LET template_id == IF template_prompt # "" THEN template_prompt
                       ELSE "standard"
    IN  CASE name \in DOMAIN InsightVariables ->
                 Get(insights, InsightVariables[name][1],
                     InsightVariables[name][2])
          [] name \in {"product_name", "product_idea"} -> product_idea
          [] name = "requirements_table_rows" ->
                 _generate_requirements_table(insights)
          [] name = "customer_personas_table" ->
                 _generate_personas_table(insights)
          [] name = "stakeholder_matrix_table" ->
                 _generate_stakeholder_table(insights)
          [] name = "feature_prioritization_table" ->
                 _generate_prioritization_table(insights)
          [] name = "generation_date" -> ClockDateTime
          [] name = "session_id" -> Take(FreshUuid, 8)
          [] name = "document_status" -> "Draft - In Review"
          [] name = "document_version" -> "1.0"
          [] name = "edit_history_rows" ->
                 "| 1.0 | " \o ClockDate
                 \o " | Initial Draft | PRD Agent - CIRCLES Framework |"
          [] name = "reference_documents_rows" ->
                 "| 1.0 | Product Specification | TBD | Generated from CIRCLES analysis |"
          [] name = "template_id" -> template_id
          [] name = "appendix_section" ->
                 IF include_appendix
                 THEN _generate_circles_appendix(circles_responses, template_id)
                 ELSE ""

\* str.format(**variables) of a template whose braces are not doubled and
\* whose fields are plain names: the text, or the exception raised.  The
\* template is cut at each "{"; a piece after the first is a field name, "}"
\* and literal text.
FieldName(piece) ==
    SubSeq(piece, 1, (CHOOSE i \in 1..Len(piece) :
                         /\ Ch(piece, i) = "}"
                         /\ \A j \in 1..(i - 1) : Ch(piece, j) # "}") - 1)

FieldTail(piece) == Drop(piece, Len(FieldName(piece)) + 1)

Format(template, variables) ==
    LET pieces == Split(template, "{")
        names == DOMAIN variables
        error(k) ==
            IF k = 1 THEN IF Contains(pieces[1], "}") THEN "ValueError" ELSE ""
            ELSE IF ~Contains(pieces[k], "}") THEN "ValueError"
            ELSE IF FieldName(pieces[k]) \notin names THEN "KeyError"
            ELSE IF Contains(FieldTail(pieces[k]), "}") THEN "ValueError"
            ELSE ""
        E == {k \in 1..Len(pieces) : error(k) # ""}
    IN  IF E # {}
        THEN [ok |-> FALSE,
              text |-> error(CHOOSE k \in E : \A j \in E : k <= j)]
        ELSE [ok |-> TRUE,
              text |-> Join([k \in 1..Len(pieces) |->
                               IF k = 1 THEN pieces[1]
                               ELSE variables[FieldName(pieces[k])]
                                    \o FieldTail(pieces[k])], "")]

\* prd_agent.py:437-489: template_variables
TemplateVariables(product_idea, circles_responses, insights, template_prompt, include_appendix) ==
    [name \in TemplateVariableNames |->
        TemplateVariable(name, product_idea, circles_responses, insights,
                         template_prompt, include_appendix)]

\* prd_agent.py:491-499: the template is filled; a field that is not a
\* template variable hands over to the simplified generator, any other
\* failure of format leaves the method
Filled(prd_content) ==
    IF prd_content.ok THEN [kind |-> "prd", text |-> prd_content.text]
    ELSE IF prd_content.text = "KeyError" THEN [kind |-> "simple", text |-> ""]
    ELSE [kind |-> "raise", text |-> prd_content.text]

\* prd_agent.py:426-499, given what loading the template file gave
HybridFrom(template_content, template_variables) ==
    IF ~template_content.ok THEN [kind |-> "simple", text |-> ""]
    ELSE Filled(Format(template_content.text, template_variables))

\* prd_agent.py:418-499: the document, or that the simplified generator
\* takes over, or the exception that leaves the method
_generate_prd_hybrid_approach(files, product_idea, circles_responses, template_prompt, include_appendix) ==
    HybridFrom(load_prompt(files, "prd_template.prompt"),
               TemplateVariables(product_idea, circles_responses,
                   _extract_circles_insights(circles_responses),
                   template_prompt, include_appendix))


----------------------------------------------------------------------------
(* The environment of a run: requests, prompt files, completion service    *)

\* an optional value: <<>> is None, <<v>> is v
None == <<>>
Some(v) == <<v>>

\* the most deviations of the environment in one run: a missing stage prompt
\* file, or a service invocation that meets an error or an empty text
MaxFaults == 1

\* utils/template_manager.py:25-60: the descriptions of the built-in templates
Templates ==
    [standard_template |->
        "Comprehensive business requirements document template suitable for most projects",
     agile_feature_template |->
        "Template optimized for agile development and feature specifications",
     mobile_app_template |->
        "Specialized template for mobile application requirements"]

\* utils/template_manager.py:89-91 and prd_agent.py:113-116
TemplatePrompt(template_id) ==
    IF template_id \in DOMAIN Templates THEN Templates[template_id] ELSE ""

LongNote ==
    "Households lose track of small recurring payments. "
    \o "Interviews with forty families showed that most of them could not name "
    \o "their three largest monthly subscriptions, and that half of them had "
    \o "paid for a service that nobody in the family had used for a year."

\* the generate_prd calls considered
Requests ==
    {[product_idea |-> "Budget tracker app",
      template_id |-> "standard_template",
      conversation_data |-> <<>>,
      session_id |-> None,
      include_appendix |-> FALSE],
     [product_idea |-> "Budget tracker app",
      template_id |-> "team_template",
      conversation_data |-> <<<<"target_market", "busy parents">>,
                              <<"open_points", "  ">>,
                              <<"research_notes", LongNote>>>>,
      session_id |-> Some("s1"),
      include_appendix |-> TRUE]}

\* the text of the stage prompt file called file
StagePromptFile(file) ==
    "You are a senior product analyst. Work on this step: "
    \o StepTitle(Take(file, Len(file) - Len(".prompt"))) \o "."

StageFileNames == {circles_steps[k] \o ".prompt" : k \in 1..Len(circles_steps)}

\* a PRD template whose fields are all template variables, and one that has a
\* field the assembler does not fill
TemplateComplete ==
    "# PRD: {product_name}\n\n"
    \o "Date: {generation_date} | Template: {template_id}\n\n"
    \o "## Situation\n{situation_context}\n\n"
    \o "## Functional Requirements\n{requirements_table_rows}\n\n"
    \o "## Success Metrics\n{success_metrics}\n{appendix_section}\n"

TemplateUnknownKey ==
    "# PRD: {product_name}\n\n## Owner\n{product_owner}\n"

TemplateFiles ==
    {<<>>, "prd_template.prompt" :> TemplateComplete,
     "prd_template.prompt" :> TemplateUnknownKey}

\* the prompt directories considered: at most MaxFaults stage files missing
Envs ==
    {[files |-> [f \in StageFileNames \ missing |-> StagePromptFile(f)] @@ t] :
        missing \in {m \in SUBSET StageFileNames : Cardinality(m) <= MaxFaults},
        t \in TemplateFiles}

\* the usual completions of the service: an analysis for a stage prompt, a
\* document for an assembly prompt
AnalysisText ==
    "Key users: busy parents.\n- Export data to CSV files\n1. Build the mobile app"

DocumentText ==
    "# PRD\nSession {session_id}\n## Problem\nUsers overspend. Solution: alerts.\n"

\* the analysis the service gives for another product idea
MealAnalysisText ==
    "Key users: students.\n- Plan meals for the week\n1. Build the shopping list"

Completion(prompt) ==
    IF Contains(prompt, "Product Requirements Document") THEN DocumentText
    ELSE IF Contains(prompt, "Meal planner") THEN MealAnalysisText
    ELSE AnalysisText

\* a completion that is only whitespace
BlankText == " \n "

\* what the service raises: a request too large, the provider's rate limit
\* code, a rate limit worded otherwise, a connection failure
ErrorTexts ==
    {"Error code: 413 - Request too large for model",
     "Error code: 429 - rate_limit_exceeded",
     "429 Too Many Requests: RATE_LIMIT reached",
     "Connection error."}


----------------------------------------------------------------------------
(* generate_prd as a state machine                                         *)

StepIds == {circles_steps[k] : k \in 1..Len(circles_steps)}

NoDict == [x \in {} |-> ""]
NoArgs == [product_idea |-> "", template_id |-> "", conversation_data |-> <<>>,
           session_id |-> None, include_appendix |-> FALSE]
NoCall == [caller |-> "none", prompt |-> "", attempt |-> 0, waits |-> <<>>,
           response_tokens |-> <<>>, sent |-> <<>>, errors |-> <<>>,
           slept |-> <<>>]
NoRet == [kind |-> "none", text |-> ""]
NoResult == [kind |-> "none"]
NoHist == [recorded |-> <<>>, requests |-> 0, raised |-> NoDict]
NoCov == [doc |-> "", report |-> None]
NoTab == [bundle |-> None, insights |-> None, tables |-> None]
NoTxt == [conversation_data |-> <<>>, prompt |-> "", max_tokens |-> 0,
          base_context |-> None, truncated |-> None, request |-> None,
          emergency |-> None]

\* the session id the call in progress works under
SessionId == args.session_id[1]

\* datetime.now() of prd_agent.py:97, as a clock that moves on each time a
\* call ends
Now == Len(ended)

\* prd_agent.py:95-100
PRDSession(a) ==
    [product_idea |-> a.product_idea, started_at |-> Now,
     template_id |-> a.template_id,
     conversation_data |-> a.conversation_data, responses |-> NoDict,
     circles_analysis |-> None]

\* responses[step] = text
Put(d, key, text) ==
    [x \in DOMAIN d \cup {key} |-> IF x = key THEN text ELSE d[x]]

\* a deviation is allowed inside an invocation that has already met one, and
\* otherwise while the run has met fewer than MaxFaults
MayDeviate == call.attempt > 0 \/ faults < MaxFaults
Deviated == IF call.attempt > 0 THEN faults ELSE faults + 1

\* the state before any call, the prompt directory being one of envs
Idle(envs) ==
    /\ pc = "idle"
    /\ args = NoArgs
    /\ env \in envs
    /\ sessions = NoDict
    /\ step = 0
    /\ responses = NoDict
    /\ call = NoCall
    /\ ret = NoRet
    /\ result = NoResult
    /\ faults = Len(circles_steps)
                - Cardinality(StageFileNames \cap DOMAIN env.files)
    /\ hist = NoHist
    /\ suspended = <<>>
    /\ ended = <<>>

Init ==
    /\ Idle(Envs)
    /\ cov = NoCov
    /\ tab = NoTab
    /\ txt = NoTxt

\* a call that registers a new session whether or not its id is registered
ArriveReplacing(a, sid) ==
    /\ args' = [a EXCEPT !.session_id = Some(sid)]
    /\ sessions' = Put(sessions, sid, PRDSession(a))

\* prd_agent.py:94-100: the session of the call is created if absent
Arrive(a, sid) ==
    /\ args' = [a EXCEPT !.session_id = Some(sid)]
    /\ sessions' = IF sid \in DOMAIN sessions THEN sessions
                   ELSE Put(sessions, sid, PRDSession(a))

\* prd_agent.py:82-102 and 161: the call arrives, its session is created if
\* absent, and the stage loop starts
Called(requests) ==
    /\ pc = "idle"
    /\ \E a \in requests :
          Arrive(a, IF a.session_id = None THEN FreshUuid ELSE a.session_id[1])
    /\ pc' = "stage"
    /\ step' = 1
    /\ responses' = NoDict
    /\ UNCHANGED <<env, call, ret, result, faults, hist, cov, tab, suspended, ended, txt>>

GeneratePrd == Called(Requests)

\* _call_groq_api is entered with a prompt
Invoke(caller, prompt) ==
    /\ call' = [NoCall EXCEPT !.caller = caller, !.prompt = prompt]
    /\ pc' = "call"

\* a stage loop that skips a stage whose prompt file does not load, recording
\* nothing for it
StageWithoutMarker(name, step_prompt) ==
    IF step_prompt.ok
    THEN /\ Invoke("stage",
                   StagePrompt(BaseContext(args.product_idea,
                                           args.conversation_data),
                               responses, step, step_prompt.text))
         /\ UNCHANGED <<step, responses, hist>>
    ELSE /\ step' = step + 1
         /\ UNCHANGED <<pc, call, responses, hist>>

\* prd_agent.py:177-203 and 211-214: the stage called name, given what
\* loading its prompt file gave
StageWith(name, step_prompt) ==
    IF step_prompt.ok
    THEN /\ Invoke("stage",
                   StagePrompt(BaseContext(args.product_idea,
                                           args.conversation_data),
                               responses, step, step_prompt.text))
         /\ UNCHANGED <<step, responses, hist>>
    ELSE /\ responses' = Put(responses, name, FailureMarker(step_prompt.text))
         /\ hist' = [hist EXCEPT !.recorded = Append(@, step),
                                 !.raised = Put(@, name, step_prompt.text)]
         /\ step' = step + 1
         /\ UNCHANGED <<pc, call>>

\* prd_agent.py:177-203 and 211-214: stage i loads its prompt file and builds
\* its prompt; a load that raises records the failure marker and the loop
\* goes on
StageBegin ==
    /\ pc = "stage"
    /\ step <= Len(circles_steps)
    /\ StageWith(circles_steps[step],
                 load_prompt(env.files, circles_steps[step] \o ".prompt"))
    /\ UNCHANGED <<args, env, sessions, ret, result, faults, cov, tab, suspended, ended, txt>>

\* prd_agent.py:1366-1377: the invocation after one more attempt that sent
\* the request sent
Attempted(sent) ==
    [call EXCEPT !.prompt = sent.prompt, !.attempt = @ + 1,
                 !.response_tokens = Append(@, sent.response_tokens),
                 !.sent = Append(@, sent.prompt)]

\* prd_agent.py:1396-1397: that attempt raised error_str, and the handler
\* slept for wait before it went on (0: it did not sleep)
Failed(error_str, sent, wait) ==
    [Attempted(sent) EXCEPT !.errors = Append(@, error_str),
                            !.slept = Append(@, wait)]

\* a handler that raises what an attempt raised without trying again
HandleRaisingAtOnce(error_str, sent) ==
    /\ ret' = [kind |-> "raise", text |-> error_str]
    /\ call' = Failed(error_str, sent, 0)
    /\ pc' = "ret"

\* prd_agent.py:1396-1422: the attempt that sent the request sent raised
\* error_str
Handle(error_str, sent) ==
    IF IsSizeLimit(error_str)
    THEN IF call.attempt < max_retries
         THEN /\ call' = [Failed(error_str, sent, 0) EXCEPT !.prompt =
                             _emergency_truncate_prompt(sent.prompt, 2000)]
              /\ UNCHANGED <<pc, ret>>
         ELSE /\ ret' = [kind |-> "return", text |-> Placeholder(sent.prompt)]
              /\ call' = Failed(error_str, sent, 0)
              /\ pc' = "ret"
    ELSE IF IsRateLimit(error_str) /\ call.attempt < max_retries
    THEN /\ call' = [Failed(error_str, sent, wait_time(call.attempt)) EXCEPT
                        !.waits = Append(@, wait_time(call.attempt))]
         /\ pc' = "sleep"
         /\ UNCHANGED ret
    ELSE IF call.attempt = max_retries
    THEN /\ ret' = [kind |-> "raise", text |-> error_str]
         /\ call' = Failed(error_str, sent, 0)
         /\ pc' = "ret"
    ELSE /\ call' = Failed(error_str, sent, 0)
         /\ UNCHANGED <<pc, ret>>

\* prd_agent.py:1396-1422: one attempt of the invocation raised error_str
HandleError(error_str) == Handle(error_str, Request(call.prompt))

\* prd_agent.py:1379-1394: the service answered the request sent with content
Answered(content, sent) ==
    IF content = None THEN Handle(NoneContentError, sent)
    ELSE /\ ret' = [kind |-> "return", text |-> Strip(content[1])]
         /\ call' = [call EXCEPT !.prompt = sent.prompt,
                                 !.response_tokens =
                                     Append(@, sent.response_tokens),
                                 !.sent = Append(@, sent.prompt)]
         /\ pc' = "ret"

\* prd_agent.py:1366-1394: one attempt, answered by the service with a text
\* or with no text at all
ServiceReturns ==
    /\ pc = "call"
    /\ \E content \in {Some(Completion(call.prompt)), Some(BlankText), None} :
          /\ content = Some(Completion(call.prompt)) \/ MayDeviate
          /\ faults' = IF content = Some(Completion(call.prompt)) THEN faults
                       ELSE Deviated
          /\ Answered(content, Request(call.prompt))
    /\ hist' = [hist EXCEPT !.requests = @ + 1]
    /\ UNCHANGED <<args, env, sessions, step, responses, result, cov, tab, suspended, ended, txt>>

\* prd_agent.py:1366-1422: one attempt, on which the service raises
ServiceFails ==
    /\ pc = "call"
    /\ MayDeviate
    /\ \E error_str \in ErrorTexts : HandleError(error_str)
    /\ faults' = Deviated
    /\ hist' = [hist EXCEPT !.requests = @ + 1]
    /\ UNCHANGED <<args, env, sessions, step, responses, result, cov, tab, suspended, ended, txt>>

\* prd_agent.py:1416-1417: the backoff sleep is over and the loop of
\* attempts goes on
Slept ==
    /\ pc = "sleep"
    /\ pc' = "call"
    /\ UNCHANGED <<args, env, sessions, step, responses, call, ret, result,
                   faults, hist, cov, tab, suspended, ended, txt>>

\* prd_agent.py:206-214: the invocation of stage i ended; its text, or the
\* failure marker of what it raised, is recorded and the loop goes on
StageRecord ==
    /\ pc = "ret"
    /\ call.caller = "stage"
    /\ LET name == circles_steps[step]
       IN  IF ret.kind = "return"
           THEN /\ responses' = Put(responses, name, ret.text)
                /\ hist' = [hist EXCEPT !.recorded = Append(@, step)]
           ELSE /\ responses' = Put(responses, name, FailureMarker(ret.text))
                /\ hist' = [hist EXCEPT
                               !.recorded = Append(@, step),
                               !.raised = Put(@, name, ret.text)]
    /\ step' = step + 1
    /\ pc' = "stage"
    /\ UNCHANGED <<args, env, sessions, call, ret, result, faults, cov, tab, suspended, ended, txt>>


\* prd_agent.py:110: session.responses = circles_responses is executed when
\* the orchestrator returns, in the step that starts the assembler; a later
\* step of the call leaves the responses of the session as they are
Stored ==
    IF pc = "stage" THEN responses ELSE sessions[SessionId].responses

\* prd_agent.py:133-142: the result is built and the session keeps the
\* analysis
Finished(prd_content, circles_analysis) ==
    /\ result' = [kind |-> "result",
                  prd_document |-> prd_content,
                  circles_analysis |-> circles_analysis,
                  generation_timestamp |-> ClockIso,
                  session_id |-> SessionId]
    /\ sessions' = [sessions EXCEPT ![SessionId].responses = Stored,
                       ![SessionId].circles_analysis = Some(circles_analysis)]
    /\ pc' = "done"
    /\ UNCHANGED <<call, ret>>

\* prd_agent.py:127-142: the document is scored, the result is built and the
\* session keeps the analysis
Finish(prd_content) ==
    Finished(prd_content,
             [analysis |-> _analyze_circles_coverage(prd_content),
              circles_responses |-> responses])

\* prd_agent.py:144-146: the exception leaves generate_prd
Fail(error_str) ==
    /\ result' = [kind |-> "raised", error |-> error_str]
    /\ sessions' = [sessions EXCEPT ![SessionId].responses = Stored]
    /\ pc' = "failed"
    /\ UNCHANGED <<call, ret>>

\* prd_agent.py:1143-1166: the simplified generator asks the service
Simple ==
    /\ Invoke("simple", SimplePrompt(args.product_idea, responses))
    /\ sessions' = [sessions EXCEPT ![SessionId].responses = Stored]
    /\ UNCHANGED <<ret, result>>

\* prd_agent.py:388, 416 and 418-499: what the hybrid method ended with
HybridOutcome(h) ==
    IF h.kind = "prd" THEN Finish(h.text)
    ELSE IF h.kind = "simple" THEN Simple
    ELSE Fail(h.text)

\* prd_agent.py:418-499
Hybrid ==
    HybridOutcome(_generate_prd_hybrid_approach(env.files, args.product_idea,
        responses, TemplatePrompt(args.template_id), args.include_appendix))

\* prd_agent.py:339-392: the assembler, given what loading the template file
\* gave and the prompt built from it
AssembleWith(prd_template, comprehensive_prompt) ==
    IF ~prd_template.ok THEN Simple
    ELSE IF EstimatedTokens10(comprehensive_prompt) > 55000 THEN Hybrid
    ELSE /\ Invoke("direct", comprehensive_prompt)
         /\ sessions' = [sessions EXCEPT ![SessionId].responses = responses]
         /\ UNCHANGED <<ret, result>>

AssembleFrom(prd_template) ==
    AssembleWith(prd_template,
                 ComprehensivePrompt(args.product_idea, responses,
                                     prd_template.text))

\* prd_agent.py:110-125 and 339-392: the loop is over; the session keeps the
\* responses and the assembler starts: by the simplified generator if the
\* template file does not load, by the hybrid method if the prompt is too
\* large, by one request to the service otherwise
Assemble ==
    /\ pc = "stage"
    /\ step = Len(circles_steps) + 1
    /\ AssembleFrom(load_prompt(env.files, "prd_template.prompt"))
    /\ UNCHANGED <<args, env, step, responses, faults, hist, cov, tab, suspended, ended, txt>>

\* prd_agent.py:398-401
PostProcess(final_prd) ==
    ReplaceAll(ReplaceAll(ReplaceAll(final_prd,
        "{generation_date}", ClockDateTime),
        "{session_id}", ClockSessionId),
        "{document_version}", "1.0")

\* prd_agent.py:392-416: the direct request ended.  Its text is the document
\* unless the appendix is asked for: line 405 calls _generate_circles_appendix
\* without its second argument, which raises TypeError, and every exception
\* here leads to the hybrid method
DirectResume ==
    /\ pc = "ret"
    /\ call.caller = "direct"
    /\ IF ret.kind = "return" /\ ~args.include_appendix
       THEN Finish(PostProcess(ret.text))
       ELSE Hybrid
    /\ UNCHANGED <<args, env, step, responses, faults, hist, cov, tab, suspended, ended, txt>>

\* prd_agent.py:1166 and 144-146: the request of the simplified generator
\* ended; what it raised leaves generate_prd
SimpleResume ==
    /\ pc = "ret"
    /\ call.caller = "simple"
    /\ IF ret.kind = "return" THEN Finish(ret.text) ELSE Fail(ret.text)
    /\ UNCHANGED <<args, env, step, responses, faults, hist, cov, tab, suspended, ended, txt>>

Next ==
    \/ GeneratePrd
    \/ StageBegin
    \/ ServiceReturns
    \/ ServiceFails
    \/ Slept
    \/ StageRecord
    \/ Assemble
    \/ DirectResume
    \/ SimpleResume

Spec == Init /\ [][Next]_vars

----------------------------------------------------------------------------
(* The stage-response bundle of a run                                      *)

\* _execute_circles_framework has returned
Orchestrated == step = Len(circles_steps) + 1

\* the text recorded for stage i
Recorded(i) == responses[circles_steps[i]]

\* C1: once the orchestrator has gone through its stages, the keys of the
\* response bundle are exactly the 7 stage ids, whatever each stage met (a
\* prompt file that does not load, a completion, an exception of the service,
\* the degraded placeholder); and at no time does it hold any other key.
C1_BundleHasExactlyTheStageIds ==
    /\ Cardinality(StepIds) = 7
    /\ DOMAIN responses \subseteq StepIds
    /\ Orchestrated => DOMAIN responses = StepIds

\* a finished orchestration in which a stage did not get a completion
C1_Witness ==
    /\ Orchestrated
    /\ DOMAIN responses = StepIds
    /\ \E i \in 1..Len(circles_steps) : Recorded(i) # AnalysisText

\* C2: every response recorded in the bundle is a non-empty text, also when
\* the text the service returned is empty or only whitespace.
C2_RecordedResponsesNonEmpty ==
    \A name \in DOMAIN responses : responses[name] # ""

\* C3: when a stage raises (its prompt file does not load, or its invocation
\* of the service raises), the text recorded for that stage is the failure
\* marker holding the description of the error; the loop has then moved to
\* the next stage, and once the orchestration is over every later stage is
\* recorded too; and an exception leaves generate_prd only after the
\* orchestration, from the simplified generator.
C3_StageFailureIsRecordedAndNotFatal ==
    /\ \A i \in 1..Len(circles_steps) :
          circles_steps[i] \in DOMAIN hist.raised =>
             /\ circles_steps[i] \in DOMAIN responses
             /\ StartsWith(Recorded(i), "Analysis step failed: ")
             /\ hist.raised[circles_steps[i]] # ""
             /\ EndsWith(Recorded(i), hist.raised[circles_steps[i]])
             /\ step > i
             /\ Orchestrated =>
                   \A j \in (i + 1)..Len(circles_steps) :
                      circles_steps[j] \in DOMAIN responses
    /\ pc = "failed" => Orchestrated /\ call.caller = "simple"

\* the first stage raised and the orchestration went through the last stage
C3_Witness ==
    /\ Orchestrated
    /\ circles_steps[1] \in DOMAIN hist.raised
    /\ DOMAIN responses = StepIds
    /\ Recorded(1) = "Analysis step failed: " \o hist.raised[circles_steps[1]]

\* the responses recorded so far are those of stages 1..step-1, in this order
RecordedInOrder ==
    /\ hist.recorded = [k \in 1..Len(hist.recorded) |-> k]
    /\ Len(hist.recorded) = Max(0, step - 1)
    /\ DOMAIN responses = {circles_steps[k] : k \in 1..Len(hist.recorded)}
    /\ Cardinality(DOMAIN responses) = Len(hist.recorded)

\* C4: the stages are gone through in the fixed order.  At every moment the
\* stages recorded are exactly stages 1..step-1, each once, so the invocation
\* of stage k is under way only when stages 1..k-1 are recorded; a recorded
\* response is never changed; and the run is over only with all 7 recorded.
C4_StagesInOrderOnce ==
    /\ [](/\ RecordedInOrder
          /\ pc \in {"call", "ret"} /\ call.caller = "stage" =>
                step \in 1..Len(circles_steps)
          /\ pc \in {"done", "failed"} =>
                Orchestrated /\ Len(hist.recorded) = 7)
    /\ [][\A name \in DOMAIN responses :
             /\ name \in DOMAIN responses'
             /\ responses'[name] = responses[name]]_vars

\* the invocation of the last stage is under way with six stages recorded
C4_Witness ==
    /\ pc = "call"
    /\ call.caller = "stage"
    /\ step = Len(circles_steps)
    /\ hist.recorded = <<1, 2, 3, 4, 5, 6>>

\* the template fallback was taken: the template file does not load, or the
\* template names a field the assembler does not fill
TemplateFallback ==
    \/ "prd_template.prompt" \notin DOMAIN env.files
    \/ env.files["prd_template.prompt"] = TemplateUnknownKey

\* C6: with the template file missing, or with a template field the assembler
\* does not fill, generate_prd does not fail: the simplified generator gives
\* the document and a result is returned, whatever the service does.
C6_TemplateFallbackNeverFails ==
    TemplateFallback => pc # "failed"

----------------------------------------------------------------------------
(* The invocation when the service refuses every request for its size      *)

\* s repeated n times
RECURSIVE Repeat(_, _)
Repeat(s, n) ==
    IF n = 0 THEN ""
    ELSE IF n % 2 = 1 THEN s \o Repeat(s, n - 1)
    ELSE Repeat(s \o s, n \div 2)

\* a product idea of more words than the hard truncator lets through
LongIdea ==
    "Budget tracker " \o Repeat("with alerts and shared family budgets ", 350)

SizedRequests ==
    {[product_idea |-> "Budget tracker app",
      template_id |-> "standard_template",
      conversation_data |-> <<>>,
      session_id |-> None,
      include_appendix |-> FALSE],
     [product_idea |-> LongIdea,
      template_id |-> "standard_template",
      conversation_data |-> <<<<"target_market", "busy parents">>>>,
      session_id |-> Some("s1"),
      include_appendix |-> TRUE]}

\* the prompt directories that hold every stage prompt file
EnvsComplete == {e \in Envs : StageFileNames \subseteq DOMAIN e.files}

InitSizeLimit ==
    /\ Idle(EnvsComplete)
    /\ cov = NoCov
    /\ tab = NoTab
    /\ txt = NoTxt

GeneratePrdSized == Called(SizedRequests)

\* prd_agent.py:1366-1422: one attempt, which the service refuses with one of
\* its size-limit errors
ServiceSizeLimit ==
    /\ pc = "call"
    /\ \E error_str \in {e \in ErrorTexts : IsSizeLimit(e)} :
          HandleError(error_str)
    /\ hist' = [hist EXCEPT !.requests = @ + 1]
    /\ UNCHANGED <<args, env, sessions, step, responses, result, faults, cov,
                   tab, suspended, ended, txt>>

NextSizeLimit ==
    \/ GeneratePrdSized
    \/ StageBegin
    \/ ServiceSizeLimit
    \/ StageRecord
    \/ Assemble
    \/ DirectResume
    \/ SimpleResume

SpecSizeLimit == InitSizeLimit /\ [][NextSizeLimit]_vars

\* the degraded placeholder of an invocation of a stage, whose prompt starts
\* with the product idea
IsStagePlaceholder(text) ==
    /\ StartsWith(text, "Analysis incomplete due to context size limitations. "
                        \o "Key points: Product Idea: Budget tracker ")
    /\ EndsWith(text, "...")

\* C5: when the service refuses every request with a size-limit error and the
\* stage prompt files load, a retry is sent only with a prompt the hard
\* truncator has cut (to 2000 words, or 2000 words and its 10-word closing
\* line), no invocation waits or raises, the third attempt returns the
\* degraded placeholder that holds the first 200 characters of the prompt,
\* every recorded stage response is that placeholder, and the orchestration
\* ends with all 7 stages recorded.
C5_SizeLimitGivesPlaceholders ==
    /\ pc = "call" => call.attempt <= max_retries
    /\ pc = "call" /\ call.attempt > 0 => WordCount(call.prompt) <= 2000 + 10
    /\ pc = "ret" =>
          /\ ret.kind = "return"
          /\ call.attempt = max_retries + 1
          /\ call.waits = <<>>
          /\ ret.text = "Analysis incomplete due to context size limitations. "
                        \o "Key points: " \o Take(call.prompt, 200) \o "..."
    /\ \A name \in DOMAIN responses : IsStagePlaceholder(responses[name])
    /\ hist.raised = NoDict
    /\ pc # "failed"
    /\ Orchestrated => DOMAIN responses = StepIds

\* the run of the long product idea went through its 7 stages on 3 refused
\* attempts each
C5_Witness ==
    /\ Orchestrated
    /\ args.product_idea = LongIdea
    /\ hist.requests >= 3 * Len(circles_steps)
    /\ \A i \in 1..Len(circles_steps) : IsStagePlaceholder(Recorded(i))

----------------------------------------------------------------------------
(* The coverage scorer on its own                                          *)

\* the first n keywords of every dimension
KeywordsPrefix(n) ==
    Join([k \in 1..Len(CirclesDimensions) |->
             Join(TakeSeq(CirclesKeywords[CirclesDimensions[k]], n), ", ")],
         "\n")

\* a document that names the first n keywords of every dimension, the first m
\* structure indicators and, if executed, the framework
Doc(n, m, executed) ==
    "# PRD\n" \o KeywordsPrefix(n) \o "\n"
    \o Join(TakeSeq(ComprehensiveIndicators, m), "; ") \o "\n"
    \o (IF executed THEN "Built with the CIRCLES Framework.\n" ELSE "")

Docs ==
    {Doc(n, m, executed) : n \in 0..8, m \in 0..Len(ComprehensiveIndicators),
                           executed \in BOOLEAN}

InitCoverage ==
    /\ Idle({CHOOSE e \in EnvsComplete : TRUE})
    /\ cov \in {[doc |-> d, report |-> None] : d \in Docs}
    /\ tab = NoTab
    /\ txt = NoTxt

\* prd_agent.py:128: the document is scored
Analyze ==
    /\ cov.report = None
    /\ cov' = [cov EXCEPT !.report = Some(_analyze_circles_coverage(cov.doc))]
    /\ UNCHANGED <<pc, args, env, sessions, step, responses, call, ret, result,
                   faults, hist, tab, suspended, ended, txt>>

NextCoverage == Analyze

SpecCoverage == InitCoverage /\ [][NextCoverage]_vars

Report == cov.report[1]

\* C7: the aggregate coverage of every scored document is in [0, 100], with
\* the framework flag set or not and for every number of structure indicators.
C7_AggregateWithinBounds ==
    cov.report # None =>
       /\ Report.overall_coverage >= 0
       /\ Report.overall_coverage <= 100 * CovUnit

\* a document that names every keyword, every structure indicator and the
\* framework: the sum of its dimensions and the bonus go past the cap
C7_Witness ==
    /\ cov.report # None
    /\ Report.circles_framework_executed
    /\ Report.comprehensive_structure
    /\ \A d \in DOMAIN Report.steps :
          Report.steps[d].coverage_percentage = 100 * CovScale
    /\ Report.overall_coverage = 95 * CovUnit

\* the percentage of a dimension with n of its nk keywords found, with the
\* framework flag set and unset
WithFlag(n, nk) == DimensionCoverage(n, nk, TRUE).coverage_percentage
WithoutFlag(n, nk) == DimensionCoverage(n, nk, FALSE).coverage_percentage

\* the number of keywords of dimension d found in the scored document
Found(d) == Len(Report.steps[d].found_keywords)

\* C8: for every dimension of every scored document, the percentage the
\* scorer gives with the framework flag set is at least the percentage it gives
\* with the flag unset for the same number of keywords found, and at most 100;
\* the percentage in the report is the one of the report's flag.
C8_BoostNeverLowers ==
    cov.report # None =>
       \A d \in DOMAIN Report.steps :
          /\ WithFlag(Found(d), Len(CirclesKeywords[d]))
                >= WithoutFlag(Found(d), Len(CirclesKeywords[d]))
          /\ WithFlag(Found(d), Len(CirclesKeywords[d])) <= 100 * CovScale
          /\ Report.steps[d].coverage_percentage =
                IF Report.circles_framework_executed
                THEN WithFlag(Found(d), Len(CirclesKeywords[d]))
                ELSE WithoutFlag(Found(d), Len(CirclesKeywords[d]))

\* a scored document with the flag set in which one dimension is raised by
\* the boost and another is held at 100 by the cap
C8_Witness ==
    /\ cov.report # None
    /\ Report.circles_framework_executed
    /\ \E d \in DOMAIN Report.steps :
          /\ Found(d) > 0
          /\ Report.steps[d].coverage_percentage
                > WithoutFlag(Found(d), Len(CirclesKeywords[d]))
          /\ Report.steps[d].coverage_percentage < 100 * CovScale
    /\ \E d \in DOMAIN Report.steps :
          /\ Report.steps[d].coverage_percentage = 100 * CovScale
          /\ (WithoutFlag(Found(d), Len(CirclesKeywords[d])) * 15) \div 10
                > 100 * CovScale

----------------------------------------------------------------------------
(* The insight extractor and the table synthesizers on their own           *)

SectionsText ==
    "**Current State**\nFamilies track spending on paper and lose receipts.\n"
    \o "**Functional Requirements**\n- Import bank statements every night\n"
    \o "- Share one budget across the family\n"
    \o "**Success**\nFewer missed payments."

PersonaText ==
    "Primary user: office manager\nGoal: wants faster approvals\n"
    \o "Pain: manual data entry\n- Uses the weekly report workflow daily"

\* longer than the summary length, without a key-point line: one of few
\* words and one of many
LongPlainText == Repeat("families plan monthly spending together ", 12)
LongWordyText == Repeat("we plan a lot ", 40)

SampleTexts ==
    {AnalysisText, SectionsText, PersonaText, LongPlainText, LongWordyText,
     "Users overspend", " "}

\* the stage-response bundles considered: none of the stage ids, every stage
\* id with the same text (the empty text among them), one stage id alone
Bundles ==
    {NoDict}
    \cup {[name \in StepIds |-> t] : t \in SampleTexts \cup {""}}
    \cup {[name \in {circles_steps[i]} |-> t] :
             i \in 1..Len(circles_steps), t \in SampleTexts}

\* the insight keys the table synthesizers read
TableKeys == {"functional_needs", "priority_features", "customer_needs_summary",
              "customer_identification", "customer_segments",
              "customer_context"}

\* insight bundles handed to the synthesizers directly: empty, of empty
\* texts, without a usable list line, with list lines, naming a persona
InsightBundles ==
    {NoDict,
     [key \in TableKeys |-> ""],
     [key \in TableKeys |-> "Users overspend"],
     [key \in TableKeys |-> "- too short\n1. tiny"],
     [key \in TableKeys |->
         "- Import bank statements every night\n1. Share one budget across the family"],
     [key \in TableKeys |-> PersonaText],
     [key \in TableKeys |-> "users search and export data reports"]}

InitTables ==
    /\ Idle({CHOOSE e \in EnvsComplete : TRUE})
    /\ cov = NoCov
    /\ tab \in {[bundle |-> Some(b), insights |-> None, tables |-> None] :
                   b \in Bundles}
               \cup {[bundle |-> None, insights |-> Some(i), tables |-> None] :
                        i \in InsightBundles}
    /\ txt = NoTxt

\* prd_agent.py:434: the insights are extracted from the stage responses
ExtractInsights ==
    /\ tab.bundle # None
    /\ tab.insights = None
    /\ tab' = [tab EXCEPT
                  !.insights = Some(_extract_circles_insights(tab.bundle[1]))]
    /\ UNCHANGED <<pc, args, env, sessions, step, responses, call, ret, result,
                   faults, hist, cov, suspended, ended, txt>>

\* prd_agent.py:472-475: the four tables are synthesized from the insights
SynthesizeTables ==
    /\ tab.insights # None
    /\ tab.tables = None
    /\ tab' = [tab EXCEPT !.tables = Some(
                  [requirements |-> _generate_requirements_table(tab.insights[1]),
                   personas |-> _generate_personas_table(tab.insights[1]),
                   stakeholders |-> _generate_stakeholder_table(tab.insights[1]),
                   prioritization |->
                       _generate_prioritization_table(tab.insights[1])])]
    /\ UNCHANGED <<pc, args, env, sessions, step, responses, call, ret, result,
                   faults, hist, cov, suspended, ended, txt>>

NextTables == ExtractInsights \/ SynthesizeTables

SpecTables == InitTables /\ [][NextTables]_vars

Insights == tab.insights[1]
Tables == tab.tables[1]

\* a table row: a line of cells between bars
IsRow(line) == StartsWith(line, "| ") /\ EndsWith(line, " |")

\* the text is one table row or more, one per line
IsRows(table) ==
    \A k \in 1..Len(Split(table, "\n")) : IsRow(Split(table, "\n")[k])

\* the rows are those of the given features, in order
RowsName(table, features) ==
    /\ Len(Split(table, "\n")) = Len(features)
    /\ \A k \in 1..Len(features) :
          Contains(Split(table, "\n")[k], "| " \o features[k] \o " |")

PersonaNames(personas) == [k \in 1..Len(personas) |-> personas[k].name]

\* C9: each of the four tables synthesized from an insight bundle is one row
\* or more (an empty bundle, empty texts and texts without a usable list line
\* included); and when nothing usable is extracted the rows are the default
\* ones: the default features of the requirements table, the default personas
\* and the generic features of the prioritization table.
C9_TablesHaveARow ==
    tab.tables # None =>
       /\ \A name \in DOMAIN Tables : Tables[name] # "" /\ IsRows(Tables[name])
       /\ RequirementFeatures(RequirementsText(Insights)) = <<>> =>
             RowsName(Tables.requirements,
                      _generate_default_features(RequirementsText(Insights)))
       /\ ExtractedPersonas(Insights) = <<>> =>
             RowsName(Tables.personas,
                      PersonaNames(TakeSeq(_generate_default_personas(
                                               PersonasText(Insights)), 4)))
       /\ ExtractedPriorityFeatures(Insights) = <<>> =>
             RowsName(Tables.prioritization, GenericPriorityFeatures)

\* the tables of the empty insight bundle: the generic rows of each
C9_Witness ==
    /\ tab.tables # None
    /\ Insights = NoDict
    /\ Len(Split(Tables.requirements, "\n")) = Len(GenericFeatures)
    /\ Contains(Tables.requirements, "| Core business functionality |")
    /\ Len(Split(Tables.personas, "\n")) = Len(FallbackPersonas)
    /\ Len(Split(Tables.prioritization, "\n")) = Len(GenericPriorityFeatures)
    /\ Len(Split(Tables.stakeholders, "\n")) = 4

\* a text that stands for an extraction that found nothing
IsInsightPlaceholder(text) ==
    \/ text = "Analysis pending"
    \/ StartsWith(text, "Analysis needed for ")

\* C10: the bundle extracted from a stage-response bundle has every one of
\* the 20 insight keys, each with a non-empty text (stage ids missing and
\* empty or blank stage texts included); the key of a stage that is missing
\* or empty holds a placeholder.
C10_EveryInsightKeyHasText ==
    tab.bundle # None /\ tab.insights # None =>
       /\ DOMAIN Insights = DOMAIN InsightSources
       /\ Cardinality(DOMAIN Insights) = 20
       /\ \A key \in DOMAIN Insights :
             /\ Insights[key] # ""
             /\ Get(tab.bundle[1], InsightSources[key][1], "") = "" =>
                   IsInsightPlaceholder(Insights[key])

\* the insights of a bundle that has the first stage only: its keys hold
\* extracted text, the keys of the missing stages hold placeholders
C10_Witness ==
    /\ tab.bundle # None
    /\ tab.insights # None
    /\ DOMAIN tab.bundle[1] = {circles_steps[1]}
    /\ tab.bundle[1][circles_steps[1]] = SectionsText
    /\ Insights["situation_analysis"]
          = "Families track spending on paper and lose receipts."
    /\ Insights["solution_options"] = "Analysis pending"
    /\ Insights["success_metrics"]
          = "Analysis needed for success, metric, measurement, kpi"

----------------------------------------------------------------------------

----------------------------------------------------------------------------
(* Prompt builders and truncators on their own                             *)

\* the most words of a prompt beyond the 4230 that the invoker sends as they
\* are
MaxExtraWords == 1

\* conversation_data dicts, as lists of items: values that are blank, short,
\* of 200 characters, longer, and longer by dots only
ContextData ==
    {<<>>,
     <<<<"target_market", "busy parents">>, <<"open_points", "  ">>,
       <<"research_notes", LongNote>>>>,
     <<<<"summary", Repeat("a", 200)>>, <<"notes", "">>,
       <<"details", Repeat("abcd ", 100)>>>>,
     <<<<"tail", Repeat("b", 200) \o ".">>>>,
     <<<<"quote", Repeat("c", 200) \o "...">>>>}

\* a prompt of sections, some essential to the soft truncator
SectionedPrompt ==
    "Product Idea: budget tracker for busy parents and their teenage children"
    \o "\n\nPrevious analysis shows that families forget subscriptions every month"
    \o "\n\nInterviews were held with forty families in three cities last spring"
    \o "\n\nPlease provide a focused analysis."

\* a prompt of n lines of ten words between five first and three last lines
LinedPrompt(n) ==
    "Product Idea: budget tracker\nfor busy parents\nand teenagers\nat home\n"
    \o "Context:\n"
    \o Repeat("m m m m m m m m m m\n", n)
    \o "Step: situation\nUse bullet points\nPlease provide a focused analysis."

\* a prompt whose first five lines hold 5 * n words, before 30 lines of ten
HeadedPrompt(n) ==
    Repeat(Repeat("h ", n) \o "\n", 5)
    \o Repeat("m m m m m m m m m m\n", 30)
    \o "Step: situation\nUse bullet points\nPlease provide a focused analysis."

\* prd_agent.py:162-203: the prompt of the first stage
FirstStagePrompt ==
    StagePrompt(BaseContext("Budget tracker app", <<>>), NoDict, 1,
                StagePromptFile(circles_steps[1] \o ".prompt"))

\* a stage response of 800 characters that is a list of short items
DenseAnalysis == Repeat("- ok\n", 160)

\* prd_agent.py:347-382: the direct-mode assembly prompt made from seven such
\* responses; it has more than 2000 words and its estimate is below 5500
DensePrompt ==
    ComprehensivePrompt("Budget tracker app",
                        [s \in StepIds |-> DenseAnalysis], TemplateComplete)

\* the prompts considered: short ones, ones around the 4230 words beyond
\* which the invoker truncates before it sends, a stage prompt and a
\* direct-mode assembly prompt
Prompts ==
    {"", "Summarize the plan", SectionedPrompt,
     "one two three four five six seven eight nine ten eleven twelve thirteen "
     \o "fourteen fifteen sixteen seventeen eighteen nineteen twenty twentyone",
     Repeat("a ", 4230),
     Repeat("a ", 4230 + MaxExtraWords),
     LinedPrompt(430),
     HeadedPrompt(790),
     FirstStagePrompt,
     DensePrompt}

\* the max_tokens of the truncators considered: small ones, the 2000 of a
\* retry after a size-limit error, and the 4000 of the other uses
Budgets == {12, 20, 2000, 4000}

InitText ==
    /\ Idle({CHOOSE e \in EnvsComplete : TRUE})
    /\ cov = NoCov
    /\ tab = NoTab
    /\ txt \in {[NoTxt EXCEPT !.conversation_data = d] : d \in ContextData}
               \cup {[NoTxt EXCEPT !.prompt = p, !.max_tokens = b] :
                        p \in Prompts, b \in Budgets}

\* prd_agent.py:161-172: the base context of the stage prompts is built
BuildBaseContext ==
    /\ txt.base_context = None
    /\ txt' = [txt EXCEPT !.base_context =
                  Some(BaseContext("Budget tracker app",
                                   txt.conversation_data))]
    /\ UNCHANGED <<pc, args, env, sessions, step, responses, call, ret, result,
                   faults, hist, cov, tab, suspended, ended>>

\* prd_agent.py:202: the soft truncator is applied to a prompt
TruncateContext ==
    /\ txt.truncated = None
    /\ txt' = [txt EXCEPT !.truncated =
                  Some(_truncate_context_intelligently(txt.prompt,
                                                       txt.max_tokens))]
    /\ UNCHANGED <<pc, args, env, sessions, step, responses, call, ret, result,
                   faults, hist, cov, tab, suspended, ended>>

\* prd_agent.py:1366-1391: the request of one attempt is made from a prompt
SendRequest ==
    /\ txt.request = None
    /\ txt' = [txt EXCEPT !.request = Some(Request(txt.prompt))]
    /\ UNCHANGED <<pc, args, env, sessions, step, responses, call, ret, result,
                   faults, hist, cov, tab, suspended, ended>>

\* prd_agent.py:1374 and 1404: the hard truncator is applied to a prompt
EmergencyTruncate ==
    /\ txt.emergency = None
    /\ txt' = [txt EXCEPT !.emergency =
                  Some(_emergency_truncate_prompt(txt.prompt, txt.max_tokens))]
    /\ UNCHANGED <<pc, args, env, sessions, step, responses, call, ret, result,
                   faults, hist, cov, tab, suspended, ended>>

NextText ==
    BuildBaseContext \/ TruncateContext \/ SendRequest \/ EmergencyTruncate

SpecText == InitText /\ [][NextText]_vars

\* the base context built
Base == txt.base_context[1]

\* how the entry of a conversation_data item starts
EntryLabel(item) == "- " \o Title(Replace(item[1], "_", " ")) \o ": "

\* the value of the item as the entry is to show it
Shown(value) == IF Len(value) > 200 THEN Take(value, 200) \o "..." ELSE value

\* the item has an entry, which shows its value cut to 200 characters
HasEntry(item) == Contains(Base, EntryLabel(item) \o Shown(item[2]) \o "\n")

\* the entry of the item starts with the whole value
ShowsInFull(item) == Contains(Base, EntryLabel(item) \o item[2])

\* the number of entries of the base context
Entries ==
    Cardinality({i \in 1..(Len(Base) - 2) : SubSeq(Base, i, i + 2) = "\n- "})

\* the items of the conversation data whose value is not blank
ValuedItems ==
    {i \in 1..Len(txt.conversation_data) :
        Strip(txt.conversation_data[i][2]) # ""}

Sent == txt.request[1]
Truncated == txt.truncated[1]

\* C19: for every request sent to the completion service, the max-output-size
\* equals min(configured maximum, max(500, 6000 - estimated size of the
\* prompt actually sent)), the estimate being taken as the integer the code
\* computes; it is at least 500 and at most the configured maximum, also when
\* the prompt was cut before sending because its estimate exceeded 5500.
C19_OutputBudgetFormula ==
    txt.request # None =>
       /\ Sent.response_tokens =
             Min(GROQ_MAX_TOKENS, Max(500, 6000 - IntTokens(Sent.prompt)))
       /\ Sent.response_tokens >= 500
       /\ Sent.response_tokens <= GROQ_MAX_TOKENS

\* a request whose prompt, estimated over 5500, was cut before sending
C19_Witness ==
    /\ txt.request # None
    /\ EstimatedTokens10(txt.prompt) > 55000
    /\ Sent.prompt # txt.prompt
    /\ WordCount(Sent.prompt) < WordCount(txt.prompt)
    /\ Sent.response_tokens < 1500

\* the output of the hard truncator
Emergency == txt.emergency[1]

\* C20: for every prompt and budget, the text the soft truncator returns has
\* an estimated size (word count x 1.3) of at most the budget, also when the
\* essential sections alone use up all or nearly all of the budget.
C20_SoftTruncatorWithinBudget ==
    txt.truncated # None =>
       EstimatedTokens10(Truncated) <= 10 * txt.max_tokens

----------------------------------------------------------------------------
(* The attempts of one invocation of the completion service                *)

\* what the service reports with an error: rate limiting by the status 429,
\* a request too large by the status 413
ReportsRateLimit(error_str) == Contains(error_str, "429")
ReportsSizeLimit(error_str) == Contains(error_str, "413")
ReportsOther(error_str) ==
    ~ReportsRateLimit(error_str) /\ ~ReportsSizeLimit(error_str)

\* the failed attempts of the invocation in progress or last made
FailedAttempts == 1..Len(call.errors)

\* attempts remain after failed attempt k
AttemptsRemain(k) == k <= max_retries

\* the prompt with which the invocation goes on after failed attempt k is the
\* one that attempt sent
RetriesSamePrompt(k) ==
    /\ Len(call.sent) > k => call.sent[k + 1] = call.sent[k]
    /\ Len(call.sent) = k /\ Len(call.errors) = k => call.prompt = call.sent[k]

\* the invocation has come to its end
Ended == pc \notin {"call", "sleep"}

\* C15: whenever an attempt fails with a rate-limit error (any error the
\* service reports as rate limiting, the one that reads rate_limit_exceeded
\* included) and attempts remain, the invoker sleeps (attempt + 1) x 2 time
\* units, 2 after the first failure and 4 after the second, and then retries
\* with exactly the prompt it had sent.
C15_RateLimitSleepsAndRetriesSamePrompt ==
    \A k \in FailedAttempts :
       ReportsRateLimit(call.errors[k]) /\ AttemptsRemain(k) =>
          /\ call.slept[k] = k * 2
          /\ RetriesSamePrompt(k)

\* C16: if every attempt of one invocation fails with a rate-limit error, the
\* invoker raises that error after the last attempt and returns no text.
C16_ExhaustedRateLimitRaises ==
    /\ Len(call.errors) = max_retries + 1
    /\ \A k \in FailedAttempts : ReportsRateLimit(call.errors[k])
    => /\ ret.kind = "raise"
       /\ ret.text = call.errors[max_retries + 1]

\* C17: within one invocation every retry after a size-limit failure is sent
\* with a prompt of strictly fewer words than the prompt that just failed,
\* whatever the prompt, one within the budget of the hard truncator included.
C17_SizeLimitRetryIsShorter ==
    \A k \in FailedAttempts :
       ReportsSizeLimit(call.errors[k]) /\ Len(call.sent) > k =>
          WordCount(call.sent[k + 1]) < WordCount(call.sent[k])

\* C18: after a failure that is neither size-limit nor rate-limit the invoker
\* does not sleep; while attempts remain it goes on with the prompt it had
\* sent and neither raises nor returns; when it was the last attempt it raises
\* the error of that attempt; and an invocation raises only once its
\* max_retries + 1 attempts have all failed.
C18_OtherFailureRetriesThenRaises ==
    /\ \A k \in FailedAttempts :
          ReportsOther(call.errors[k]) =>
             /\ call.slept[k] = 0
             /\ AttemptsRemain(k) =>
                   /\ RetriesSamePrompt(k)
                   /\ Len(call.sent) = k => pc = "call"
             /\ ~AttemptsRemain(k) =>
                   /\ Ended
                   /\ ret = [kind |-> "raise", text |-> call.errors[k]]
    /\ pc = "ret" /\ ret.kind = "raise" =>
          Len(call.errors) = max_retries + 1

\* an invocation whose three attempts met a connection failure: the same
\* prompt three times, no sleep, and the error raised to the caller
C18_Witness ==
    /\ pc = "ret"
    /\ call.errors = <<"Connection error.", "Connection error.",
                        "Connection error.">>
    /\ call.sent = <<call.prompt, call.prompt, call.prompt>>
    /\ call.slept = <<0, 0, 0>>
    /\ ret = [kind |-> "raise", text |-> "Connection error."]

----------------------------------------------------------------------------
(* Several generate_prd calls on one event loop                            *)

\* generate_prd is a coroutine and the completion client is the blocking
\* one, so a call runs without interruption until it ends or reaches
\* asyncio.sleep (prd_agent.py:1416); there the event loop may start another
\* call or resume one whose sleep is over.

\* config.py:37
MAX_CONCURRENT_SESSIONS == 50

\* the most generate_prd calls made in one behaviour
MaxRuns == 2

\* the local state of the call that is running
Context ==
    [args |-> args, step |-> step, responses |-> responses, call |-> call,
     ret |-> ret, hist |-> hist, faults |-> faults]

\* no call is running
Released ==
    /\ pc' = "idle"
    /\ args' = NoArgs
    /\ step' = 0
    /\ responses' = NoDict
    /\ call' = NoCall
    /\ ret' = NoRet
    /\ result' = NoResult
    /\ hist' = NoHist
    /\ faults' = 0

\* the generate_prd calls made so far
Started == Len(suspended) + Len(ended) + (IF pc = "idle" THEN 0 ELSE 1)

\* the generate_prd calls in progress: made, and neither returned nor raised
InProgress ==
    Len(suspended) + (IF pc \in {"idle", "done", "failed"} THEN 0 ELSE 1)

\* prd_agent.py:1416: the running call is suspended in asyncio.sleep and the
\* event loop takes over
Yield ==
    /\ pc = "sleep"
    /\ suspended' = Append(suspended, Context)
    /\ Released
    /\ UNCHANGED <<env, sessions, cov, tab, ended, txt>>

\* q without its element k
Without(q, k) == SubSeq(q, 1, k - 1) \o SubSeq(q, k + 1, Len(q))

\* a call that takes up, after its sleep, the dict of responses of the call
\* that ran last
RestoreSharingResponses(c) ==
    /\ args' = c.args
    /\ step' = c.step
    /\ responses' = IF ended # <<>> THEN ended[Len(ended)].responses
                    ELSE c.responses
    /\ call' = c.call
    /\ ret' = c.ret
    /\ hist' = c.hist
    /\ faults' = c.faults

\* the running call takes up the local state c after its sleep
Restore(c) ==
    /\ args' = c.args
    /\ step' = c.step
    /\ responses' = c.responses
    /\ call' = c.call
    /\ ret' = c.ret
    /\ hist' = c.hist
    /\ faults' = c.faults

\* prd_agent.py:1414-1416: how long the call of local state c sleeps
Wait(c) == c.call.slept[Len(c.call.slept)]

\* a call suspended later wakes before one suspended earlier only if it
\* sleeps for a shorter time
WakesFirst(k) == \A j \in 1..(k - 1) : Wait(suspended[j]) > Wait(suspended[k])

\* prd_agent.py:1416-1417: the sleep of suspended call k is over and the event
\* loop resumes it
Resume(k) ==
    /\ pc = "idle"
    /\ k \in 1..Len(suspended)
    /\ WakesFirst(k)
    /\ Restore(suspended[k])
    /\ suspended' = Without(suspended, k)
    /\ pc' = "call"
    /\ UNCHANGED <<env, sessions, result, cov, tab, ended, txt>>

ResumeAny == \E k \in 1..Len(suspended) : Resume(k)

\* prd_agent.py:142 and 144-146: the running call returns its result or
\* raises; overlapped tells that another call was in progress then
Return ==
    /\ pc \in {"done", "failed"}
    /\ ended' = Append(ended, [args |-> args, responses |-> responses,
                               result |-> result,
                               overlapped |-> suspended # <<>>])
    /\ Released
    /\ UNCHANGED <<env, sessions, cov, tab, suspended, txt>>

\* the calls of the clients: two session ids, each with its product idea, and
\* a call that comes back to the first session with the other idea
SessionRequests ==
    {[product_idea |-> "Budget tracker app",
      template_id |-> "standard_template",
      conversation_data |-> <<>>,
      session_id |-> Some("s1"),
      include_appendix |-> FALSE],
     [product_idea |-> "Meal planner app",
      template_id |-> "standard_template",
      conversation_data |-> <<>>,
      session_id |-> Some("s2"),
      include_appendix |-> FALSE],
     [product_idea |-> "Meal planner app",
      template_id |-> "standard_template",
      conversation_data |-> <<>>,
      session_id |-> Some("s1"),
      include_appendix |-> FALSE]}

\* the prompt directory that holds every stage prompt file and the complete
\* template
EnvSessions ==
    {e \in EnvsComplete :
        /\ "prd_template.prompt" \in DOMAIN e.files
        /\ e.files["prd_template.prompt"] = TemplateComplete}

InitSessions ==
    /\ Idle(EnvSessions)
    /\ cov = NoCov
    /\ tab = NoTab
    /\ txt = NoTxt

GeneratePrdSession ==
    /\ Started < MaxRuns
    /\ Called(SessionRequests)

\* the rate-limit error that the handler answers with a sleep
RateLimitText == "429 Too Many Requests: RATE_LIMIT reached"

\* prd_agent.py:1366-1422: one attempt, which the service refuses for rate
\* limiting
ServiceRateLimit ==
    /\ pc = "call"
    /\ MayDeviate
    /\ HandleError(RateLimitText)
    /\ faults' = Deviated
    /\ hist' = [hist EXCEPT !.requests = @ + 1]
    /\ UNCHANGED <<args, env, sessions, step, responses, result, cov, tab,
                   suspended, ended, txt>>

\* prd_agent.py:1379-1394: one attempt, which the service answers
ServiceAnswers ==
    /\ pc = "call"
    /\ Answered(Some(Completion(call.prompt)), Request(call.prompt))
    /\ hist' = [hist EXCEPT !.requests = @ + 1]
    /\ UNCHANGED <<args, env, sessions, step, responses, result, faults, cov,
                   tab, suspended, ended, txt>>

NextSessions ==
    \/ GeneratePrdSession
    \/ StageBegin
    \/ ServiceAnswers
    \/ ServiceRateLimit
    \/ Yield
    \/ ResumeAny
    \/ StageRecord
    \/ Assemble
    \/ DirectResume
    \/ Return

SpecSessions == InitSessions /\ [][NextSessions]_vars

\* the session id of a call, given its arguments
SidOf(a) == a.session_id[1]

\* the calls made so far under the session id sid
CallsUnder(sid) ==
    Cardinality({i \in 1..Len(ended) : SidOf(ended[i].args) = sid})
    + Cardinality({k \in 1..Len(suspended) : SidOf(suspended[k].args) = sid})
    + (IF pc # "idle" /\ SessionId = sid THEN 1 ELSE 0)

\* no other call was made under the session id sid
Alone(sid) == CallsUnder(sid) = 1

\* what the service gives to a call for the product idea: its analysis, and
\* otherwise the call records a failure marker
IsOwnText(text, product_idea) ==
    \/ text = Completion("Product Idea: " \o product_idea)
    \/ StartsWith(text, "Analysis step failed: ")

\* the session sid is registered for the call of arguments a, and it stores
\* the responses kept, all of them of that call
KeepsOwn(sid, a, kept) ==
    /\ sid \in DOMAIN sessions
    /\ sessions[sid].product_idea = a.product_idea
    /\ sessions[sid].responses = kept
    /\ \A name \in DOMAIN kept : IsOwnText(kept[name], a.product_idea)

\* the call of local state c has executed line 110
Assembled(c) == c.call.caller \in {"direct", "simple"}

\* the result of ended call i belongs to the session and holds its responses
OwnResult(i) ==
    ended[i].result.kind = "result" =>
       /\ ended[i].result.session_id = SidOf(ended[i].args)
       /\ ended[i].result.circles_analysis.circles_responses
             = ended[i].responses
       /\ sessions[SidOf(ended[i].args)].circles_analysis
             = Some(ended[i].result.circles_analysis)

\* C13: for calls with distinct session ids, interleaved in any way at the
\* suspension points, each call writes only its own response bundle and its own
\* session: the session of each call is registered and is not overwritten,
\* it stores nothing before the call has gone through its stages and
\* afterwards exactly the responses of that call, none of them produced for
\* the other call.
C13_DistinctSessionsKeepTheirOwn ==
    /\ \A i \in 1..Len(ended) :
          Alone(SidOf(ended[i].args)) =>
             /\ KeepsOwn(SidOf(ended[i].args), ended[i].args,
                         ended[i].responses)
             /\ DOMAIN ended[i].responses = StepIds
             /\ OwnResult(i)
    /\ \A k \in 1..Len(suspended) :
          Alone(SidOf(suspended[k].args)) =>
             KeepsOwn(SidOf(suspended[k].args), suspended[k].args,
                      IF Assembled(suspended[k]) THEN suspended[k].responses
                      ELSE NoDict)
    /\ pc # "idle" /\ Alone(SessionId) =>
          /\ KeepsOwn(SessionId, args,
                      IF Assembled(Context) \/ pc \in {"done", "failed"}
                      THEN responses ELSE NoDict)
          /\ \A name \in DOMAIN responses :
                IsOwnText(responses[name], args.product_idea)

\* two calls with distinct session ids have ended, the first of them while
\* the other was suspended; both sessions are registered, each with the
\* responses of its own call, which differ
C13_Witness ==
    /\ Len(ended) = 2
    /\ SidOf(ended[1].args) # SidOf(ended[2].args)
    /\ ended[1].overlapped
    /\ ended[1].result.kind = "result"
    /\ ended[2].result.kind = "result"
    /\ DOMAIN sessions = {"s1", "s2"}
    /\ sessions[SidOf(ended[1].args)].responses = ended[1].responses
    /\ sessions[SidOf(ended[2].args)].responses = ended[2].responses
    /\ ended[1].responses # ended[2].responses

\* no generate_prd call is in progress
Quiet == pc = "idle" /\ suspended = <<>>

\* C14: whenever no generate call is in progress, every registered session
\* that has a coverage analysis stores stage responses equal to the
\* circles_responses held in that analysis, and the session of every result
\* returned is registered; also after calls on one session id overlapped.
C14_SessionMatchesItsAnalysis ==
    Quiet =>
       /\ \A sid \in DOMAIN sessions :
             sessions[sid].circles_analysis # None =>
                sessions[sid].responses
                   = sessions[sid].circles_analysis[1].circles_responses
       /\ \A i \in 1..Len(ended) :
             ended[i].result.kind = "result" =>
                ended[i].result.session_id \in DOMAIN sessions

----------------------------------------------------------------------------
(* A burst of generate_prd calls while the service is saturated            *)

\* one call more than the configured maximum of concurrent sessions
MaxLoad == MAX_CONCURRENT_SESSIONS + 1

\* the n-th call of the burst, each under a session id of its own
LoadRequest(n) ==
    [product_idea |-> "Budget tracker app",
     template_id |-> "standard_template",
     conversation_data |-> <<>>,
     session_id |-> Some("session-" \o Pad3(n)),
     include_appendix |-> FALSE]

InitLoad ==
    /\ Idle(EnvSessions)
    /\ cov = NoCov
    /\ tab = NoTab
    /\ txt = NoTxt

\* prd_agent.py:82-102: the next call of the burst is started by the event
\* loop; nothing in generate_prd looks at the number of calls in progress
GeneratePrdLoad ==
    /\ Started < MaxLoad
    /\ Called({LoadRequest(Started + 1)})

\* prd_agent.py:1366-1422: one attempt, which the saturated service refuses
\* for rate limiting
ServiceSaturated ==
    /\ pc = "call"
    /\ HandleError(RateLimitText)
    /\ hist' = [hist EXCEPT !.requests = @ + 1]
    /\ UNCHANGED <<args, env, sessions, step, responses, result, faults, cov,
                   tab, suspended, ended, txt>>

\* the calls of the burst have all been started, and the call that has been
\* suspended for the longest time is resumed
ResumeOldest ==
    /\ Started = MaxLoad
    /\ Resume(1)

NextLoad ==
    \/ GeneratePrdLoad
    \/ StageBegin
    \/ ServiceSaturated
    \/ Yield
    \/ ResumeOldest
    \/ StageRecord
    \/ Assemble
    \/ DirectResume
    \/ Return

SpecLoad == InitLoad /\ [][NextLoad]_vars

\* C12: the number of generate runs in progress at the same time never exceeds
\* MAX_CONCURRENT_SESSIONS; a call that arrives when that many runs are in
\* progress does not start its pipeline beside them.
C12_RunsWithinConcurrencyLimit == InProgress <= MAX_CONCURRENT_SESSIONS


----------------------------------------------------------------------------
(* The truncators: budget and product idea                                 *)

\* C21: for every prompt and budget, the text the hard truncator returns has
\* an estimated size (word count x 1.3) of at most the budget, also when it
\* clips to the first words and appends the continuation instruction, and
\* for prompts of fewer than 8 lines.
C21_HardTruncatorWithinBudget ==
    txt.emergency # None =>
       EstimatedTokens10(Emergency) <= 10 * txt.max_tokens

\* the product-idea statement of a stage prompt and of the direct-mode
\* assembly prompt
IdeaStatements ==
    {"Product Idea: Budget tracker app",
     "=== PRODUCT IDEA ===\nBudget tracker app"}

\* C22: for every prompt that contains the product-idea statement, the text
\* the soft truncator returns and the text the hard truncator returns both
\* contain it.
C22_TruncatorsKeepProductIdea ==
    \A s \in IdeaStatements :
       Contains(txt.prompt, s) =>
          /\ txt.truncated # None => Contains(Truncated, s)
          /\ txt.emergency # None => Contains(Emergency, s)


----------------------------------------------------------------------------
(* The context budgeter and the context summarizer on their own            *)

\* a response of key-point lines whose join is longer than 300 characters
KeyPointsText ==
    Repeat("- Import bank statements every night and match them to receipts\n",
           8)

\* the responses handed to the summarizer and held in the bundles
ContextTexts ==
    {AnalysisText, LongPlainText, LongWordyText, KeyPointsText,
     "Users overspend",
     FailureMarker("Connection error.")}

\* the prior responses considered: none, the first stage alone, the first
\* three, the first six, each with the same text, and six of which the
\* fourth stage failed
PriorResponses ==
    {NoDict}
    \cup {[name \in {circles_steps[i] : i \in 1..n} |-> t] :
             n \in {1, 3, 6}, t \in ContextTexts \ {"Users overspend"}}
    \cup {[name \in {circles_steps[i] : i \in 1..6} |->
             IF name = circles_steps[4]
             THEN FailureMarker("Connection error.") ELSE LongWordyText]}

\* the max_tokens of the context budgeter considered: none, fewer than the
\* words of a digest, and the 1500 the orchestrator asks for
ContextBudgets == {0, 5, 20, 1500}

\* the max_length of the summarizer considered
SummaryLengths == {0, 20, 100, SummaryLength}

NoCtx == [prior |-> NoDict, current_step |-> "", max_tokens |-> 0,
          context |-> None, response |-> "", max_length |-> 0,
          summary |-> None]

InitContext ==
    /\ Idle({CHOOSE e \in EnvsComplete : TRUE})
    /\ cov = NoCov
    /\ tab = NoTab
    /\ txt \in {[NoCtx EXCEPT !.prior = d, !.current_step = s,
                              !.max_tokens = b] :
                   d \in PriorResponses, s \in StepIds, b \in ContextBudgets}
               \cup {[NoCtx EXCEPT !.response = t, !.max_length = m] :
                        t \in ContextTexts, m \in SummaryLengths}

\* prd_agent.py:184: the context of a stage is built from the prior responses
BuildSmartContext ==
    /\ txt.current_step # ""
    /\ txt.context = None
    /\ txt' = [txt EXCEPT !.context =
                  Some(_build_smart_context(txt.prior, txt.current_step,
                                            txt.max_tokens))]
    /\ UNCHANGED <<pc, args, env, sessions, step, responses, call, ret, result,
                   faults, hist, cov, tab, suspended, ended>>

\* prd_agent.py:239: a response is summarized
SummarizeResponse ==
    /\ txt.current_step = ""
    /\ txt.summary = None
    /\ txt' = [txt EXCEPT !.summary =
                  Some(_summarize_response(txt.response, txt.max_length))]
    /\ UNCHANGED <<pc, args, env, sessions, step, responses, call, ret, result,
                   faults, hist, cov, tab, suspended, ended>>

NextContext == BuildSmartContext \/ SummarizeResponse

SpecContext == InitContext /\ [][NextContext]_vars

\* the text the budgeter returned, and the digest it was cut from: the
\* heading and the labelled summaries of the relevant stages
BudgetedContext == txt.context[1]
Digest == _build_smart_context(txt.prior, txt.current_step, 1000000)

\* C23: for every set of prior responses, current stage and budget, the text
\* the context budgeter returns has at most budget + 1 words, the one word
\* being the elision marker; when the digest has more words than the budget
\* the words after the marker are the last budget-many words of the digest.
C23_ContextWithinBudget ==
    txt.context # None =>
       /\ WordCount(BudgetedContext) <= txt.max_tokens + 1
       /\ WordCount(Digest) > txt.max_tokens =>
             Words(BudgetedContext)
                = <<"...[truncated]...">>
                  \o SubSeq(Words(Digest),
                            WordCount(Digest) - txt.max_tokens + 1,
                            WordCount(Digest))

\* the text the summarizer returned
Summary == txt.summary[1]

\* C24: for every response and maximum length, the text the summarizer
\* returns has at most max_length characters, also after the final clamp; a
\* response of at most max_length characters is returned unchanged.
C24_SummaryWithinMaxLength ==
    txt.summary # None =>
       /\ Len(Summary) <= txt.max_length
       /\ Len(txt.response) <= txt.max_length => Summary = txt.response


----------------------------------------------------------------------------
(* The context of a stage prompt                                           *)

\* the invocation of stage `step` has been entered and has sent nothing yet:
\* call.prompt is the prompt the orchestrator built
StagePromptBuilt == pc = "call" /\ call.caller = "stage" /\ call.attempt = 0

\* the label that precedes the digest of stage name in a context
DigestLabel(name) == "\n" \o StepTitle(name) \o ": "

\* the stages in the relevance list of stage i
RelevantTo(i) ==
    {j \in 1..Len(circles_steps) :
        \E k \in 1..Len(step_relevance[circles_steps[i]]) :
           step_relevance[circles_steps[i]][k] = circles_steps[j]}

\* the digest of a recorded response: the response itself when it has at
\* most 300 characters, as a failure marker has, and its summary otherwise
DigestOf(name) ==
    IF name \in DOMAIN hist.raised
    THEN "Analysis step failed: " \o hist.raised[name]
    ELSE _summarize_response(responses[name], SummaryLength)

\* the heading and, on a line of its own each, the labelled digests of the
\* stages in the list relevant
LabelledDigests(relevant) ==
    "--- Key Insights from Previous Analysis ---"
    \o Join([k \in 1..Len(relevant) |->
                "\n" \o DigestLabel(relevant[k]) \o DigestOf(relevant[k])],
            "")

\* what stands in a stage prompt before and after the context
BeforeContext == BaseContext(args.product_idea, args.conversation_data)
AfterContext == "\n\nYou are a senior product analyst."

\* C25: the prompt built for stage 1 holds no context of prior stages.  In
\* the prompt built for a stage i > 1, between the base context and the
\* stage's own instructions stand the heading and the labelled digests of
\* exactly the stages in the relevance list of stage i, in the order of that
\* list; every stage in the list comes before stage i; and the digest of a
\* relevant stage that failed is its failure marker.
C25_ContextHoldsRelevantDigestsOnly ==
    StagePromptBuilt =>
       /\ step = 1 => StartsWith(call.prompt, BeforeContext \o AfterContext)
       /\ step > 1 =>
             /\ \A j \in RelevantTo(step) : j < step
             /\ Cardinality(RelevantTo(step))
                   = Len(step_relevance[circles_steps[step]])
             /\ StartsWith(call.prompt,
                           BeforeContext
                           \o LabelledDigests(step_relevance[circles_steps[step]])
                           \o AfterContext)

\* the prompt of the fifth stage is built after the fourth stage, which is
\* in its relevance list with the third, failed
C25_Witness ==
    /\ StagePromptBuilt
    /\ step = 5
    /\ RelevantTo(5) = {3, 4}
    /\ circles_steps[4] \in DOMAIN hist.raised
    /\ Contains(call.prompt,
                "\nCut Through Prioritization: Analysis step failed: ")
    /\ Contains(call.prompt, "\nReport The Customers Needs: " \o AnalysisText)
    /\ ~Contains(call.prompt, "\nComprehend The Situation: ")


----------------------------------------------------------------------------
(* The aggregate and the covered marks of the coverage scorer              *)

\* the sum of the 7 dimension percentages of the report (the mean, in the
\* unit of the aggregate) and the number of structure indicators the scored
\* document holds
DimensionSum ==
    SumOverDimensions([d \in DOMAIN Report.steps |->
                          Report.steps[d].coverage_percentage])
StructureScore == ComprehensiveScore(Lower(cov.doc))

\* C26: the aggregate of a scored document is the mean of the 7 dimension
\* percentages when the framework flag is unset; when the flag is set it is
\* min(95, mean + bonus), the bonus being 2 per structure indicator found and
\* at most 20, for every number of indicators found, and it is not below the
\* mean.
C26_AggregateIsBoostedMean ==
    cov.report # None =>
       /\ ~Report.circles_framework_executed =>
             Report.overall_coverage = DimensionSum
       /\ Report.circles_framework_executed =>
             /\ Report.overall_coverage =
                   Min(95 * CovUnit,
                       DimensionSum + Min(20, 2 * StructureScore) * CovUnit)
             /\ Report.overall_coverage >= DimensionSum

\* C27: for every dimension of every scored document, if the dimension is
\* marked covered for its number of keywords found with the framework flag
\* unset, it is marked covered for that number with the flag set.
C27_FlagOnlyEasesCovered ==
    cov.report # None =>
       \A d \in DOMAIN Report.steps :
          DimensionCoverage(Found(d), Len(CirclesKeywords[d]), FALSE).covered
             => DimensionCoverage(Found(d), Len(CirclesKeywords[d]),
                                  TRUE).covered


----------------------------------------------------------------------------
(* Direct assembly with the appendix                                       *)

\* generate_prd has returned a document after the direct request of the
\* assembler, made with the appendix asked for, returned a text
DirectSucceededWithAppendix ==
    /\ pc = "done"
    /\ call.caller = "direct"
    /\ ret.kind = "return"
    /\ args.include_appendix

\* C28: in direct mode with the appendix asked for, when the request to the
\* service returns a text that has no attachments heading, the document
\* returned is that text, post-processed, followed by the appendix section.
C28_DirectModeAddsAppendix ==
    DirectSucceededWithAppendix =>
       /\ StartsWith(result.prd_document, PostProcess(ret.text))
       /\ Len(result.prd_document) > Len(PostProcess(ret.text))
       /\ Contains(result.prd_document, "CIRCLES Framework Analysis")


----------------------------------------------------------------------------
(* The resources of one invocation                                         *)

\* the sum of a list of numbers
RECURSIVE SumSeq(_)
SumSeq(q) == IF q = <<>> THEN 0 ELSE q[1] + SumSeq(Tail(q))

\* an invocation of _call_groq_api is under way: about to make an attempt,
\* or asleep before the next one
Invoking == pc \in {"call", "sleep"}

\* C29: whatever the service does on each attempt, one invocation with the
\* default max_retries sends at most 3 requests and sleeps at most 2 + 4 time
\* units in all; after a third attempt it is not under way any more, and it
\* ends by returning a text or by raising the error of its last attempt.
C29_InvocationIsBounded ==
    /\ Len(call.sent) <= 3
    /\ call.attempt <= 3
    /\ SumSeq(call.slept) <= 2 + 4
    /\ Invoking => call.attempt < 3 /\ Len(call.sent) < 3
    /\ pc = "ret" =>
          \/ ret.kind = "return"
          \/ /\ ret.kind = "raise"
             /\ call.errors # <<>>
             /\ ret.text = call.errors[Len(call.errors)]

\* an invocation that met the rate limit three times: it slept 2 and 4 and
\* raised after its third request
C29_Witness ==
    /\ pc = "ret"
    /\ Len(call.sent) = 3
    /\ call.slept = <<2, 4, 0>>
    /\ \A k \in 1..3 : ReportsRateLimit(call.errors[k])
    /\ ret.kind = "raise"


----------------------------------------------------------------------------
(* Calls that come back to a registered session                            *)

\* the calls of one client, one after the other under one session id, with
\* different product ideas, templates and conversation data
ReuseRequests ==
    {[product_idea |-> "Budget tracker app",
      template_id |-> "standard_template",
      conversation_data |-> <<>>,
      session_id |-> Some("s1"),
      include_appendix |-> FALSE],
     [product_idea |-> "Meal planner app",
      template_id |-> "agile_feature_template",
      conversation_data |-> <<<<"target_market", "students">>>>,
      session_id |-> Some("s1"),
      include_appendix |-> TRUE]}

\* the prompt directories with every stage prompt file: with the complete
\* template, and without a template, where the simplified generator is used
\* and its failure leaves generate_prd as an exception
EnvsReuse ==
    {e \in EnvsComplete :
        "prd_template.prompt" \in DOMAIN e.files =>
           e.files["prd_template.prompt"] = TemplateComplete}

InitReuse ==
    /\ Idle(EnvsReuse)
    /\ cov = NoCov
    /\ tab = NoTab
    /\ txt = NoTxt

GeneratePrdReuse ==
    /\ Started < MaxRuns
    /\ Called(ReuseRequests)

\* prd_agent.py:1366-1422: one attempt, on which the connection fails
ServiceDown ==
    /\ pc = "call"
    /\ MayDeviate
    /\ HandleError("Connection error.")
    /\ faults' = Deviated
    /\ hist' = [hist EXCEPT !.requests = @ + 1]
    /\ UNCHANGED <<args, env, sessions, step, responses, result, cov, tab,
                   suspended, ended, txt>>

NextReuse ==
    \/ GeneratePrdReuse
    \/ StageBegin
    \/ ServiceAnswers
    \/ ServiceDown
    \/ StageRecord
    \/ Assemble
    \/ DirectResume
    \/ SimpleResume
    \/ Return

SpecReuse == InitReuse /\ [][NextReuse]_vars

\* what a registered session keeps from the call that created it
Kept(session) ==
    [product_idea |-> session.product_idea,
     started_at |-> session.started_at,
     template_id |-> session.template_id,
     conversation_data |-> session.conversation_data]

\* C30: no step of generate_prd removes a session id from the registry, and
\* no step changes the product idea, the creation time, the template id or
\* the conversation context of a registered session; this holds for a call
\* on a registered id that passes other values and for a call that ends with
\* an exception.  The fields of a session are these four, the stored
\* responses and the coverage analysis.
C30_RegisteredSessionIsReused ==
    [][\A sid \in DOMAIN sessions :
          /\ sid \in DOMAIN sessions'
          /\ Kept(sessions'[sid]) = Kept(sessions[sid])
          /\ DOMAIN sessions'[sid]
                = {"product_idea", "started_at", "template_id",
                   "conversation_data", "responses", "circles_analysis"}]_vars

\* a first call on the id failed with an exception; a second call on the
\* same id, made later with another idea, template and conversation data,
\* has returned: the session is the one the first call registered, and it
\* stores the responses and the analysis of the second
C30_Witness ==
    /\ Len(ended) = 1
    /\ ended[1].result.kind = "raised"
    /\ pc = "done"
    /\ SidOf(ended[1].args) = SessionId
    /\ args.product_idea # ended[1].args.product_idea
    /\ Kept(sessions[SessionId])
          = [product_idea |-> ended[1].args.product_idea,
             started_at |-> 0,
             template_id |-> ended[1].args.template_id,
             conversation_data |-> ended[1].args.conversation_data]
    /\ Now = 1
    /\ sessions[SessionId].responses = responses
    /\ sessions[SessionId].circles_analysis = Some(result.circles_analysis)

====
